---- MODULE Spec2Model ----
(***************************************************************************)
(* State-machine model of app/config/database.py: the DatabaseManager      *)
(* (lazy initialization, connectivity probe, sessions, health check,       *)
(* close) driven by concurrent callers; of app/utils/logger/logger_config.py *)
(* (the sinks LoggerConfig registers and what each of them accepts); and of *)
(* app/utils/logger/middleware.py (LoggingMiddleware.dispatch run by         *)
(* concurrent requests).                                                    *)
(***************************************************************************)
EXTENDS Integers, Sequences, FiniteSets, TLC

\* ------------------------------------------------------------------ bounds
\* Engines that create_engine may build in one behaviour.
MaxEngines == 2
\* Sessions that the session factory may hand out in one behaviour.
MaxSessions == 2
\* Consecutive close() calls that are counted.
MaxCloseRun == 2
\* Concurrent callers of the module-level db_manager.
Threads == {"t1", "t2"}
\* The caller of the sequential runs.
MainCaller == "t1"

\* ------------------------------------------------------- program constants
\* DatabaseManager.__init__: self._connection_retry_attempts = 3
_connection_retry_attempts == 3

\* ------------------------------------------------------------------ values
\* settings.database_url as the sequence of its lexical parts.
SqliteUrl == <<"sqlite", "://", "/./test.db">>
PostgresUrl == <<"postgresql", "://", "alice", ":", "pw-alice", "@", "dbhost/auth">>
Urls == {SqliteUrl, PostgresUrl}

\* An exception object: its class, its message (str(e)) and, for a failure of
\* the connectivity probe, the attempt that produced it.
NoExc == [type |-> "none", msg |-> <<>>, attempt |-> 0]
Exc(type, msg) == [type |-> type, msg |-> msg, attempt |-> 0]

NoRecord == [status |-> "none"]
\* What a health_check() observed: the engine, whether the probe query went
\* through, why not, and the elapsed time.
NoProbe == [eng |-> 0, up |-> FALSE, cause |-> "none", ms |-> 0]

VARIABLES
    database_url,       \* settings.database_url
    _engine,            \* DatabaseManager._engine: 0 is None, else the engine's id
    _session_factory,   \* DatabaseManager._session_factory: <<>> is None, else <<bind>>
    _base,              \* DatabaseManager._base: "None" or "Base"
    _is_initialized,    \* DatabaseManager._is_initialized
    created,            \* number of engines create_engine has built
    disposals,          \* per engine id, the number of Engine.dispose() calls on it
    closeCalled,        \* whether close() has been called
    closeRun,           \* close() calls made in a row, with no other operation between
    closedReady,        \* whether close() has been called on a ready manager
    dbUp,               \* whether the database answers a connection attempt
    everDown,           \* whether the database has been unreachable at some point
    sessOwner,          \* per session id (1..Len), the caller that created it
    openSessions,       \* sessions created and not yet closed
    checkedOut,         \* sessions that hold a pooled connection
    table,              \* rows durably stored in the database (row id = id of its session)
    pc,                 \* per caller: position in the operation it runs
    op,                 \* per caller: the operation it runs
    attempt,            \* per caller: loop variable of _test_connection
    probes,             \* per caller: probe attempts made by the current _test_connection
    waits,              \* per caller: time.sleep calls made by the current _test_connection
    exc,                \* per caller: exception in flight inside _initialize
    raised,             \* per caller: exception that reached the caller of the operation
    sess,               \* per caller: the session of the current unit of work (0: none)
    work,               \* per caller: what the body of the unit of work did
    sessState,          \* per caller: "clean", "pending" (added, unflushed) or "flushed"
    calls,              \* per caller: methods the scope's exit code invoked on the session
    bodyExc,            \* per caller: exception the body of the unit of work raised
    baseline,           \* per caller: sessions it held open when the scope was entered
    result,             \* per caller: record returned by health_check()
    probed,             \* per caller: what that health_check() observed
    logSettings,        \* the logging fields of the Settings object
    handlers,           \* loguru: the sinks registered on the logger
    handlerCount,       \* loguru: number of sinks ever added (the next sink's id)
    configs,            \* number of LoggerConfig objects constructed
    emitted,            \* records passed to the logger, in the order of the calls
    written,            \* per destination, the records written to it, in order
    rpc,                \* per request: position inside LoggingMiddleware.dispatch
    reqPath,            \* per request: request.url.path
    request_id,         \* per request: dispatch's local request_id (0: none yet)
    uuids,              \* number of uuid4() values drawn
    ambient,            \* per request: request_id_var / user_id_var in its task's context
    handlerOut,         \* per request: what call_next produced, and the time it took
    outcome,            \* per request: what the caller of dispatch observed
    environ,            \* per option, the environment variable Settings reads
    settings,           \* the Settings object (app.config.settings.settings)
    cleaned,            \* whether the last shutdown_event() called cleanup_pycache
    reqHeaders,         \* request.headers: the (name, value) pairs of a request
    recHeaders,         \* the "headers" field of its 'Request received' record
    users,              \* the rows of the users table
    upc,                \* per caller: its position in create_user
    user_data,          \* per caller: the UserCreate it passes
    existing,           \* per caller: what its last lookup returned
    response            \* per caller: what the controller's create_user produced

vars == <<database_url, _engine, _session_factory, _base, _is_initialized, created,
          disposals, closeCalled, dbUp, everDown, sessOwner, openSessions, checkedOut,
          table, pc, op, attempt, probes, waits, exc, raised, sess, work, sessState,
          calls, bodyExc, baseline, result, probed, closeRun, closedReady, logSettings,
          handlers, handlerCount, configs, emitted, written, rpc, reqPath,
          request_id, uuids, ambient, handlerOut, outcome, environ, settings,
          cleaned, reqHeaders, recHeaders, users, upc, user_data, existing,
          response>>

\* The logger and the requests in flight, which the manager never touches.
logVars == <<logSettings, handlers, handlerCount, configs, emitted, written>>
reqVars == <<rpc, reqPath, request_id, uuids, ambient, handlerOut, outcome>>
cfgVars == <<environ, settings, cleaned>>
hdrVars == <<reqHeaders, recHeaders>>
userVars == <<users, upc, user_data, existing, response>>
appVars == <<hdrVars, userVars>>
webVars == <<logVars, reqVars, cfgVars, appVars>>

mgrVars == <<_engine, _session_factory, _base, _is_initialized, created, disposals>>
envVars == <<database_url, dbUp, everDown, webVars>>
sessVars == <<sessOwner, openSessions, checkedOut, table>>
probeVars == <<attempt, probes, waits>>
scopeVars == <<sess, work, sessState, calls, bodyExc, baseline>>
histVars == <<closeCalled, closeRun, closedReady>>
outVars == <<result, probed>>

EngineIds == 1..MaxEngines

AcquiringOps == {"get_session", "engine", "session_factory", "base"}
ScopeOps == {"get_session_context", "get_db"}

\* ------------------------------------------------------------- URL helpers
\* str.split("://")[0]: the part of the URL before the first "://".
RECURSIVE SplitHead(_)
SplitHead(url) ==
    IF url = <<>> \/ Head(url) = "://" THEN <<>>
    ELSE <<Head(url)>> \o SplitHead(Tail(url))

\* settings.database_url.split("://")[0] + "://***"
SanitizedUrl(url) == SplitHead(url) \o <<"://***">>

\* "<name>" in settings.database_url.lower()
UrlContains(url, name) == \E i \in DOMAIN url : url[i] = name

\* The user name a URL carries ("" when it carries none).
UrlUser(url) ==
    IF \E i \in DOMAIN url : url[i] = "@" THEN url[3] ELSE ""

\* _get_engine_config: the engine options that depend on the database type.
_get_engine_config(url) ==
    IF UrlContains(url, "sqlite")
    THEN [poolclass |-> "StaticPool", isolation_level |-> "None", pool_pre_ping |-> TRUE]
    ELSE IF UrlContains(url, "postgresql") \/ UrlContains(url, "mysql")
    THEN [poolclass |-> "QueuePool", isolation_level |-> "driver", pool_pre_ping |-> TRUE]
    ELSE [poolclass |-> "default", isolation_level |-> "driver", pool_pre_ping |-> TRUE]

\* isolation_level None puts the sqlite3 driver in autocommit mode: it never
\* opens a transaction, so every statement is durable when it executes.
Autocommit(url) == _get_engine_config(url).isolation_level = "None"

\* ------------------------------------------------------ loguru, sinks
\* loguru's standard levels: logger.level(name).no.
LevelNo(name) ==
    CASE name = "TRACE" -> 5
      [] name = "DEBUG" -> 10
      [] name = "INFO" -> 20
      [] name = "SUCCESS" -> 25
      [] name = "WARNING" -> 30
      [] name = "ERROR" -> 40
      [] name = "CRITICAL" -> 50

\* The logging fields of Settings with their defaults (settings.py).
DefaultLogSettings ==
    [log_console |-> TRUE, log_file |-> "logs/app.log", log_level |-> "INFO",
     log_exception |-> TRUE, log_exception_file |-> "logs/exception.log",
     log_exception_level |-> "ERROR"]

\* The settings the logger is configured with in the runs that vary them.
LogSettingsChoices ==
    [log_console : BOOLEAN, log_file : {"", "logs/app.log"},
     log_level : {"INFO", "WARNING"}, log_exception : BOOLEAN,
     log_exception_file : {"logs/exception.log"},
     log_exception_level : {"WARNING", "ERROR"}]

\* Where a sink writes.
Dests == {"stderr", "stdout", "logs/app.log", "logs/exception.log", "logs/requests.log"}

\* The logger as "from loguru import logger" leaves it: one sink, id 0, that
\* writes to stderr from DEBUG up.
DefaultCore ==
    [handlers |-> {[id |-> 0, dest |-> "stderr", level |-> "DEBUG", filter |-> "none"]},
     count |-> 1]

\* logger.remove(): every sink is removed; ids are never reused.
remove(core) == [handlers |-> {}, count |-> core.count]

\* logger.add(dest, level=level, filter=filter): a new sink with the next id.
add(core, dest, level, filter) ==
    [handlers |-> core.handlers \cup
                    {[id |-> core.count, dest |-> dest, level |-> level, filter |-> filter]},
     count |-> core.count + 1]

\* Mutant of _setup_logger: the sinks of an earlier configuration are kept
\* ("logger.remove()" is missing).
_setup_logger_KeepsOldSinks(st, core) ==
    LET c1 == IF st.log_console THEN add(core, "stdout", st.log_level, "none") ELSE core
        c2 == IF st.log_file # "" THEN add(c1, st.log_file, st.log_level, "none") ELSE c1
        c3 == IF st.log_exception
              THEN add(c2, st.log_exception_file, st.log_exception_level, "exception_level")
              ELSE c2
    IN add(c3, "logs/requests.log", "INFO", "request_filter")

\* LoggerConfig._setup_logger: remove every sink, then add the console sink,
\* the file sink and the exception sink when their settings enable them, and
\* the request sink.
_setup_logger(st, core) ==
    LET c0 == remove(core)
        c1 == IF st.log_console THEN add(c0, "stdout", st.log_level, "none") ELSE c0
        c2 == IF st.log_file # "" THEN add(c1, st.log_file, st.log_level, "none") ELSE c1
        c3 == IF st.log_exception
              THEN add(c2, st.log_exception_file, st.log_exception_level, "exception_level")
              ELSE c2
    IN add(c3, "logs/requests.log", "INFO", "request_filter")

\* A call of the logger: logger.<level>(message, extra={...}), possibly on
\* logger.bind(...). "extra" holds the keys of the dictionary passed as the
\* extra argument, "bound" the keys bound with bind(); the other fields are
\* the values under those keys that the model follows (0 / "": no such key),
\* and ctx_request_id / ctx_user_id are the ambient values of the emitting
\* task at the time of the call.
Rec(level, message, extra) ==
    [level |-> level, message |-> message, extra |-> extra, bound |-> {},
     request_id |-> 0, error_type |-> "", duration |-> 0, status_code |-> 0,
     ctx_request_id |-> 0, ctx_user_id |-> ""]

\* record["extra"] as loguru builds it: the bound keys at the top, and the
\* keyword argument named extra as one more key, "extra", that holds the
\* caller's dictionary.
LoguruExtra(rec) ==
    [top |-> rec.bound \cup (IF rec.extra # {} THEN {"extra"} ELSE {}),
     nested |-> rec.extra]

\* Mutant of request_filter: the key is looked up in record["extra"] itself.
request_filter_TopLevel(rec) == "request" \in LoguruExtra(rec).top

\* _setup_request_logger.request_filter: extra = record.get("extra", {});
\* actual_extra = extra.get("extra", {}); return "request" in actual_extra.
request_filter(rec) ==
    LET extra == LoguruExtra(rec)
        actual_extra == IF "extra" \in extra.top THEN extra.nested ELSE {}
    IN "request" \in actual_extra

\* Mutant of Accepts: the level threshold of a sink is ignored.
Accepts_NoThreshold(h, rec, st) ==
    CASE h.filter = "none" -> TRUE
      [] h.filter = "exception_level" ->
           LevelNo(rec.level) >= LevelNo(st.log_exception_level)
      [] h.filter = "request_filter" -> request_filter(rec)

\* Whether a sink writes a record: the record's level reaches the sink's
\* level, and the sink's filter (if any) returns true.
Accepts(h, rec, st) ==
    /\ LevelNo(rec.level) >= LevelNo(h.level)
    /\ CASE h.filter = "none" -> TRUE
         [] h.filter = "exception_level" ->
              LevelNo(rec.level) >= LevelNo(st.log_exception_level)
         [] h.filter = "request_filter" -> request_filter(rec)

\* n copies of a record.
RECURSIVE Repeat(_, _)
Repeat(rec, n) == IF n = 0 THEN <<>> ELSE <<rec>> \o Repeat(rec, n - 1)

\* The destinations after one call of the logger: every sink that accepts
\* the record writes it once.
Deliver(hs, w, rec, st) ==
    [d \in Dests |->
        w[d] \o Repeat(rec, Cardinality({h \in hs : h.dest = d /\ Accepts(h, rec, st)}))]

\* --------------------------------------------------------------- Init
\* The logger as main.py leaves it: setup_logging(Settings) has run once on
\* the default settings.
LoggerInit ==
    /\ logSettings = DefaultLogSettings
    /\ handlers = _setup_logger(DefaultLogSettings, DefaultCore).handlers
    /\ handlerCount = _setup_logger(DefaultLogSettings, DefaultCore).count
    /\ configs = 1
    /\ emitted = <<>>
    /\ written = [d \in Dests |-> <<>>]

\* ------------------------------------------------------------ requests
\* Requests handled at the same time, each in a task of its own.
Requests == {"r1", "r2"}

\* request.url.path of a request: a path that is logged and an excluded one.
Paths == {"/users", "/health"}

\* LoggingMiddleware.__init__: self.excluded_paths.
excluded_paths == {"/health", "/metrics", "/favicon.ico"}

\* Seconds a request can take, on both sides of the slow-request threshold.
Durations == {1, 3}

\* dispatch: "if duration > 2.0" (the slow-request warning).
SlowThreshold == 2

\* request_id_var and user_id_var of one task: both default to None.
NoContext == [request_id |-> 0, user_id |-> ""]

\* What call_next(request) has produced: nothing yet, a response, or an
\* exception of the downstream handler. postFail names the step after the
\* handler's return that raises for this request, if one does.
NoHandlerOut ==
    [kind |-> "none", exc |-> NoExc, status_code |-> 0, duration |-> 0,
     postFail |-> "none"]

\* What the caller of dispatch observes: a response and its headers, or an
\* exception.
NoOutcome == [kind |-> "none", exc |-> NoExc, status_code |-> 0, x_request_id |-> 0]

RequestsInit ==
    /\ rpc = [r \in Requests |-> "new"]
    /\ reqPath = [r \in Requests |-> ""]
    /\ request_id = [r \in Requests |-> 0]
    /\ uuids = 0
    /\ ambient = [r \in Requests |-> NoContext]
    /\ handlerOut = [r \in Requests |-> NoHandlerOut]
    /\ outcome = [r \in Requests |-> NoOutcome]

ManagerInit ==
    /\ database_url \in Urls
    /\ _engine = 0
    /\ _session_factory = <<>>
    /\ _base = "None"
    /\ _is_initialized = FALSE
    /\ created = 0
    /\ disposals = [e \in EngineIds |-> 0]
    /\ closeCalled = FALSE
    /\ closeRun = 0
    /\ closedReady = FALSE
    /\ dbUp = TRUE
    /\ everDown = FALSE
    /\ sessOwner = <<>>
    /\ openSessions = {}
    /\ checkedOut = {}
    /\ table = {}
    /\ pc = [t \in Threads |-> "idle"]
    /\ op = [t \in Threads |-> "none"]
    /\ attempt = [t \in Threads |-> 0]
    /\ probes = [t \in Threads |-> 0]
    /\ waits = [t \in Threads |-> 0]
    /\ exc = [t \in Threads |-> NoExc]
    /\ raised = [t \in Threads |-> NoExc]
    /\ sess = [t \in Threads |-> 0]
    /\ work = [t \in Threads |-> "none"]
    /\ sessState = [t \in Threads |-> "clean"]
    /\ calls = [t \in Threads |-> <<>>]
    /\ bodyExc = [t \in Threads |-> NoExc]
    /\ baseline = [t \in Threads |-> 0]
    /\ result = [t \in Threads |-> NoRecord]
    /\ probed = [t \in Threads |-> NoProbe]

\* ------------------------------------------------------------ Settings
\* An environment variable (or .env entry): not set, or set to a text.
Unset == [set |-> FALSE, text |-> ""]
Env(text) == [set |-> TRUE, text |-> text]

\* The options of Settings that the model follows.
Options == {"port", "debug", "environment", "secret_key", "jwt_secret_key"}

\* None, as the value of an Optional[str] option.
NoneValue == "<None>"

\* Field(default=...) of each option.
Default(o) ==
    CASE o = "port" -> 8000
      [] o = "debug" -> TRUE
      [] o = "environment" -> "development"
      [] o = "secret_key" -> "your-super-secret-key-change-this-in-production"
      [] o = "jwt_secret_key" -> NoneValue

\* The texts a variable of each option is set to in the runs: for int and bool
\* options a text that parses and one that does not, for str options texts
\* that differ in case, for the JWT key the empty text and a key.
Texts(o) ==
    CASE o = "port" -> {"9000", "abc"}
      [] o = "debug" -> {"false", "maybe"}
      [] o = "environment" -> {"production", "Production", "dev"}
      [] o = "secret_key" -> {"app-secret"}
      [] o = "jwt_secret_key" -> {"", "jwt-secret"}

\* pydantic's parsing of a text for an int and for a bool option.
IntTexts == {"9000"}
IntOf(text) == CASE text = "9000" -> 9000
BoolTexts == {"true", "false", "1", "0"}
BoolOf(text) == text \in {"true", "1"}

\* Whether pydantic accepts the text for the option's type.
ValidFor(o, text) ==
    CASE o = "port" -> text \in IntTexts
      [] o = "debug" -> text \in BoolTexts
      [] OTHER -> TRUE

\* The text converted to the option's type.
Parsed(o, text) ==
    CASE o = "port" -> IntOf(text)
      [] o = "debug" -> BoolOf(text)
      [] OTHER -> text

\* Settings.set_jwt_secret_key (mode='before'): "if v is None and info.data:
\* return info.data.get('secret_key', ...); return v or 'default-secret-key'".
\* pydantic runs a field validator on a supplied value only, never on the
\* default, so v is the text of the variable.
set_jwt_secret_key(v, secret_key) ==
    IF v = NoneValue THEN secret_key
    ELSE IF v = "" THEN "default-secret-key" ELSE v

\* The value of one option of a Settings object built from an environment
\* whose texts are all valid: the default when the variable is not set, else
\* the validated text.
FieldValue(o, env, secret_key) ==
    IF ~env[o].set THEN Default(o)
    ELSE IF o = "jwt_secret_key" THEN set_jwt_secret_key(env[o].text, secret_key)
    ELSE Parsed(o, env[o].text)

\* No Settings object.
Unloaded ==
    [status |-> "unloaded", port |-> 0, debug |-> FALSE, environment |-> "",
     secret_key |-> "", jwt_secret_key |-> NoneValue]

\* Settings(): pydantic raises ValidationError when the text of some variable
\* is not valid for the type of its option; else the object holds a value for
\* every option.
LoadSettings(env) ==
    LET secret_key == FieldValue("secret_key", env, "")
    IN IF \E o \in Options : env[o].set /\ ~ValidFor(o, env[o].text)
       THEN [Unloaded EXCEPT !.status = "ValidationError"]
       ELSE
       [status |-> "loaded",
        port |-> FieldValue("port", env, secret_key),
        debug |-> FieldValue("debug", env, secret_key),
        environment |-> FieldValue("environment", env, secret_key),
        secret_key |-> secret_key,
        jwt_secret_key |-> FieldValue("jwt_secret_key", env, secret_key)]

\* config_utils.get_jwt_config()["secret_key"].
get_jwt_config_secret_key(st) ==
    IF st.jwt_secret_key \notin {NoneValue, ""} THEN st.jwt_secret_key ELSE st.secret_key

\* The environments the Settings object is built from.
Environs ==
    {env \in [Options -> {Unset} \cup {Env(x) : x \in UNION {Texts(o) : o \in Options}}] :
        \A o \in Options : env[o].set => env[o].text \in Texts(o)}

\* "settings = Settings()" at import, with no variable set.
SettingsInit ==
    /\ environ = [o \in Options |-> Unset]
    /\ settings = LoadSettings([o \in Options |-> Unset])
    /\ cleaned = "none"

\* ------------------------------------------------------ request headers
\* str.lower() on the header names checked.
LowerName(name) ==
    CASE name = "Authorization" -> "authorization"
      [] name = "X-API-Key" -> "x-api-key"
      [] OTHER -> name

\* LoggingMiddleware.__init__: self.sensitive_headers.
sensitive_headers == {"authorization", "cookie", "x-api-key"}

\* Header names and values a request may carry.
HeaderNames == {"authorization", "Authorization", "X-API-Key", "cookie", "accept"}
HeaderValues == {"v1", "v2"}
Header(name, value) == [name |-> name, value |-> value]

\* Header lines of one request.
MaxHeaders == 2

\* request.headers: at most MaxHeaders header lines; a name may repeat.
HeaderLists ==
    UNION {[1..n -> {Header(k, v) : k \in HeaderNames, v \in HeaderValues}] :
             n \in 0..MaxHeaders}

\* The record field before 'Request received' is logged.
NotLogged == [logged |-> FALSE, headers |-> <<>>]

\* No request with headers is being looked at.
HeadersInit ==
    /\ reqHeaders = <<>>
    /\ recHeaders = NotLogged

\* -------------------------------------------------------------- users
\* E-mail addresses and usernames of the UserCreate payloads (NoUsername:
\* "username" left out).
Emails == {"ann@x.org", "bob@x.org"}
NoUsername == "<None>"
Usernames == {NoUsername, "ann"}
NoUser == [email |-> "", username |-> NoUsername]
NoResponse == [status |-> 0, error |-> "none"]

\* An empty users table and nobody creating a user.
UsersInit ==
    /\ users = {}
    /\ upc = [t \in Threads |-> "idle"]
    /\ user_data = [t \in Threads |-> NoUser]
    /\ existing = [t \in Threads |-> FALSE]
    /\ response = [t \in Threads |-> NoResponse]

AppInit == HeadersInit /\ UsersInit

\* The state after construction: the manager not yet used, the logger
\* configured, no request in flight, the settings loaded from an empty
\* environment.
Init ==
    /\ ManagerInit
    /\ LoggerInit
    /\ RequestsInit
    /\ SettingsInit
    /\ AppInit

\* ------------------------------------------------ acquiring operations
\* A caller starts get_session(), the engine / session_factory / base
\* property, get_session_context() or get_db().
Start(t) ==
    /\ pc[t] = "idle"
    /\ \E o \in AcquiringOps \cup ScopeOps : op' = [op EXCEPT ![t] = o]
    /\ pc' = [pc EXCEPT ![t] = "check"]
    /\ closeRun' = 0
    /\ UNCHANGED <<mgrVars, envVars, sessVars, probeVars, scopeVars, closeCalled,
                   closedReady, exc, raised, outVars>>

\* A caller starts one of the accessors that return a manager object.
StartAccessor(t) ==
    /\ pc[t] = "idle"
    /\ \E o \in AcquiringOps : op' = [op EXCEPT ![t] = o]
    /\ pc' = [pc EXCEPT ![t] = "check"]
    /\ closeRun' = 0
    /\ UNCHANGED <<mgrVars, envVars, sessVars, probeVars, scopeVars, closeCalled,
                   closedReady, exc, raised, outVars>>

\* "if not self._is_initialized: self._initialize()" of the accessor.
CheckInitialized(t) ==
    /\ pc[t] = "check"
    /\ pc' = [pc EXCEPT ![t] = IF _is_initialized THEN "post" ELSE "init_entry"]
    /\ UNCHANGED <<mgrVars, envVars, sessVars, probeVars, scopeVars, histVars, op,
                   exc, raised, outVars>>

\* _initialize: "if self._is_initialized: return".
InitEntry(t) ==
    /\ pc[t] = "init_entry"
    /\ pc' = [pc EXCEPT ![t] = IF _is_initialized THEN "post" ELSE "create_engine"]
    /\ UNCHANGED <<mgrVars, envVars, sessVars, probeVars, scopeVars, histVars, op,
                   exc, raised, outVars>>

\* _initialize: self._engine = create_engine(settings.database_url, **config).
CreateEngine(t) ==
    /\ pc[t] = "create_engine"
    /\ created < MaxEngines
    /\ created' = created + 1
    /\ _engine' = created + 1
    /\ pc' = [pc EXCEPT ![t] = "make_factory"]
    /\ UNCHANGED <<_session_factory, _base, _is_initialized, disposals, envVars,
                   sessVars, probeVars, scopeVars, histVars, op, exc, raised,
                   outVars>>

\* _initialize: self._session_factory = sessionmaker(bind=self._engine, ...).
MakeSessionFactory(t) ==
    /\ pc[t] = "make_factory"
    /\ _session_factory' = <<_engine>>
    /\ pc' = [pc EXCEPT ![t] = "make_base"]
    /\ UNCHANGED <<_engine, _base, _is_initialized, created, disposals, envVars,
                   sessVars, probeVars, scopeVars, histVars, op, exc, raised,
                   outVars>>

\* _initialize: self._base = declarative_base().
MakeBase(t) ==
    /\ pc[t] = "make_base"
    /\ _base' = "Base"
    /\ pc' = [pc EXCEPT ![t] = "test_connection"]
    /\ UNCHANGED <<_engine, _session_factory, _is_initialized, created, disposals,
                   envVars, sessVars, probeVars, scopeVars, histVars, op, exc,
                   raised, outVars>>

\* ------------------------------------------------- connectivity probe
\* Why a connection attempt can fail for this URL: the server does not answer,
\* or (for a URL that carries credentials) it rejects them.
FailureCauses(url) ==
    IF UrlUser(url) = "" THEN {"unreachable"} ELSE {"unreachable", "denied"}

\* str(e) of the driver's error for a failed connection attempt. A rejected
\* login is reported by the driver with the user name it was attempted for.
DriverErrorText(url, cause) ==
    IF cause = "denied"
    THEN <<"password authentication failed for user", UrlUser(url)>>
    ELSE <<"could not connect to the database">>

\* The exception of one failed attempt of "with self._engine.connect() as conn:
\* conn.execute(text('SELECT 1'))"; with self._engine None the attribute
\* access itself fails.
ProbeFailure(url, eng, cause, n) ==
    IF eng = 0
    THEN [type |-> "AttributeError", msg |-> <<"NoneType has no attribute connect">>,
          attempt |-> n]
    ELSE [type |-> "OperationalError", msg |-> DriverErrorText(url, cause), attempt |-> n]

\* Mutant of RetryAfterFailure: the loop bound is off by one ("<=").
RetryAfterFailure_OffByOne(a) == a <= _connection_retry_attempts - 1

\* _test_connection: "if attempt < max_retries - 1" (sleep and try again).
RetryAfterFailure(a) == a < _connection_retry_attempts - 1

\* _test_connection: "if self._engine is None: raise RuntimeError(...)",
\* else enter "for attempt in range(max_retries)".
TestConnectionEntry(t) ==
    /\ pc[t] = "test_connection"
    /\ IF _engine = 0
       THEN /\ exc' = [exc EXCEPT ![t] = Exc("RuntimeError", <<"Engine not initialized">>)]
            /\ pc' = [pc EXCEPT ![t] = "init_fail"]
       ELSE /\ exc' = exc
            /\ pc' = [pc EXCEPT ![t] = "probe"]
    /\ attempt' = [attempt EXCEPT ![t] = 0]
    /\ probes' = [probes EXCEPT ![t] = 0]
    /\ waits' = [waits EXCEPT ![t] = 0]
    /\ UNCHANGED <<mgrVars, envVars, sessVars, scopeVars, histVars, op, raised,
                   outVars>>

\* One iteration of the retry loop: the probe succeeds and _test_connection
\* returns, or it fails and the loop either goes on to sleep or re-raises.
Probe(t) ==
    /\ pc[t] = "probe"
    /\ probes' = [probes EXCEPT ![t] = @ + 1]
    /\ IF _engine # 0 /\ dbUp
       THEN /\ pc' = [pc EXCEPT ![t] = "set_initialized"]
            /\ exc' = exc
       ELSE \E cause \in FailureCauses(database_url) :
            /\ exc' = [exc EXCEPT ![t] =
                          ProbeFailure(database_url, _engine, cause, attempt[t] + 1)]
            /\ pc' = [pc EXCEPT ![t] =
                          IF RetryAfterFailure(attempt[t]) THEN "sleep" ELSE "init_fail"]
    /\ UNCHANGED <<mgrVars, envVars, sessVars, scopeVars, histVars, op, attempt,
                   waits, raised, outVars>>

\* time.sleep(self._connection_retry_delay), then the next iteration.
Sleep(t) ==
    /\ pc[t] = "sleep"
    /\ waits' = [waits EXCEPT ![t] = @ + 1]
    /\ attempt' = [attempt EXCEPT ![t] = @ + 1]
    /\ exc' = [exc EXCEPT ![t] = NoExc]
    /\ pc' = [pc EXCEPT ![t] = "probe"]
    /\ UNCHANGED <<mgrVars, envVars, sessVars, scopeVars, histVars, op, probes,
                   raised, outVars>>

\* _initialize: self._is_initialized = True.
SetInitialized(t) ==
    /\ pc[t] = "set_initialized"
    /\ _is_initialized' = TRUE
    /\ pc' = [pc EXCEPT ![t] = "post"]
    /\ UNCHANGED <<_engine, _session_factory, _base, created, disposals, envVars,
                   sessVars, probeVars, scopeVars, histVars, op, exc, raised,
                   outVars>>

\* Mutant of _cleanup: the fields are reset but the engine is never disposed.
_cleanup_NoDispose ==
    /\ _engine' = 0
    /\ _session_factory' = <<>>
    /\ _base' = "None"
    /\ _is_initialized' = FALSE
    /\ UNCHANGED <<created, disposals>>

\* Mutant of _cleanup: "self._engine = None" is missing.
_cleanup_KeepsEngineReference ==
    /\ disposals' = IF _engine # 0 THEN [disposals EXCEPT ![_engine] = @ + 1]
                    ELSE disposals
    /\ _session_factory' = <<>>
    /\ _base' = "None"
    /\ _is_initialized' = FALSE
    /\ UNCHANGED <<_engine, created>>

\* Mutant of _cleanup: "self._session_factory = None" is missing.
_cleanup_KeepsSessionFactory ==
    /\ disposals' = IF _engine # 0 THEN [disposals EXCEPT ![_engine] = @ + 1]
                    ELSE disposals
    /\ _engine' = 0
    /\ _base' = "None"
    /\ _is_initialized' = FALSE
    /\ UNCHANGED <<_session_factory, created>>

\* _cleanup: dispose the engine if there is one, then reset the four fields.
_cleanup ==
    /\ disposals' = IF _engine # 0 THEN [disposals EXCEPT ![_engine] = @ + 1]
                    ELSE disposals
    /\ _engine' = 0
    /\ _session_factory' = <<>>
    /\ _base' = "None"
    /\ _is_initialized' = FALSE
    /\ UNCHANGED created

\* _initialize: "except Exception: self._cleanup(); raise": the failure leaves
\* the accessor and reaches its caller.
InitFail(t) ==
    /\ pc[t] = "init_fail"
    /\ _cleanup
    /\ raised' = [raised EXCEPT ![t] = exc[t]]
    /\ exc' = [exc EXCEPT ![t] = NoExc]
    /\ pc' = [pc EXCEPT ![t] = "done"]
    /\ UNCHANGED <<envVars, sessVars, probeVars, scopeVars, histVars, op, outVars>>

\* ------------------------------------------------------------ sessions
\* Sessions a caller created that are still open.
OpenOf(t) == {s \in openSessions : sessOwner[s] = t}

\* Which field the accessor tests for None after initialization
\* ("if self._engine is None: raise RuntimeError(...)" and its siblings).
FieldAbsent(o) ==
    CASE o \in {"engine", "create_tables", "startup_event"} -> _engine = 0
      [] o = "base" -> _base = "None"
      [] OTHER -> _session_factory = <<>>

FieldError(o) ==
    CASE o \in {"engine", "create_tables", "startup_event"} -> Exc("RuntimeError", <<"Database engine not initialized">>)
      [] o = "base" -> Exc("RuntimeError", <<"Declarative base not initialized">>)
      [] OTHER -> Exc("RuntimeError", <<"Session factory not initialized">>)

\* Mutant of NewSession: the factory hands out one shared session.
NewSession_Shared(owners) == 1

\* get_session: "return self._session_factory()": sessionmaker builds a new
\* Session object on every call (owners: the sessions built so far).
NewSession(owners) == Len(owners) + 1

\* The tail of the accessor: raise when the field is None; a property returns
\* the field; get_session() returns self._session_factory(), a new session,
\* which get_session_context() and get_db() then yield to the body;
\* create_tables() passes the engine to metadata.create_all(), which connects
\* to the database and raises the driver's error when it cannot.
Post(t) ==
    /\ pc[t] = "post"
    /\ \/ /\ FieldAbsent(op[t])
          /\ raised' = [raised EXCEPT ![t] = FieldError(op[t])]
          /\ pc' = [pc EXCEPT ![t] = "done"]
          /\ UNCHANGED <<sessVars, scopeVars>>
       \/ /\ ~FieldAbsent(op[t])
          /\ op[t] \in AcquiringOps \ {"get_session"}
          /\ pc' = [pc EXCEPT ![t] = "done"]
          /\ UNCHANGED <<sessVars, scopeVars, raised>>
       \/ /\ ~FieldAbsent(op[t])
          /\ op[t] \in ScopeOps \cup {"get_session"}
          /\ Len(sessOwner) < MaxSessions
          /\ baseline' = [baseline EXCEPT ![t] = Cardinality(OpenOf(t))]
          /\ sessOwner' = Append(sessOwner, t)
          /\ sess' = [sess EXCEPT ![t] = NewSession(sessOwner)]
          /\ openSessions' = openSessions \cup {NewSession(sessOwner)}
          /\ pc' = [pc EXCEPT ![t] = IF op[t] = "get_session" THEN "done" ELSE "body"]
          /\ UNCHANGED <<checkedOut, table, work, sessState, calls, bodyExc, raised>>
       \/ /\ ~FieldAbsent(op[t])
          /\ op[t] \in {"create_tables", "startup_event"}
          /\ IF dbUp
             THEN raised' = raised
             ELSE \E cause \in FailureCauses(database_url) :
                    raised' = [raised EXCEPT ![t] =
                                  Exc("OperationalError",
                                      DriverErrorText(database_url, cause))]
          /\ pc' = [pc EXCEPT ![t] =
                       IF op[t] = "startup_event" /\ dbUp THEN "startup_health"
                       ELSE "done"]
          /\ UNCHANGED <<sessVars, scopeVars>>
    /\ UNCHANGED <<mgrVars, envVars, probeVars, histVars, op, exc, outVars>>

\* What the body of a unit of work does with the session it was given: nothing
\* that changes data, session.add(), add() and flush(), or add() and commit()
\* (as BaseRepository.create does).
Works == {"none", "add", "add_flush", "add_commit"}
\* How the body ends by itself: normally, or by raising.
BodyOutcomes == {NoExc, Exc("SQLAlchemyError", <<"statement failed">>),
                 Exc("ValueError", <<"invalid input">>)}

\* The body of the unit of work (the code between yield and the scope's exit).
\* flush() and commit() send the INSERT: they need the database and raise
\* without it; under the driver's autocommit mode the row is durable as soon
\* as the INSERT has executed, otherwise when the transaction is committed.
Body(t) ==
    /\ pc[t] = "body"
    /\ \E w \in Works, o \in BodyOutcomes :
        /\ work' = [work EXCEPT ![t] = w]
        /\ IF w \in {"add_flush", "add_commit"} /\ ~dbUp
           THEN /\ bodyExc' = [bodyExc EXCEPT ![t] =
                                 Exc("OperationalError", <<"statement failed">>)]
                /\ sessState' = [sessState EXCEPT ![t] = "pending"]
                /\ UNCHANGED <<checkedOut, table>>
           ELSE /\ bodyExc' = [bodyExc EXCEPT ![t] = o]
                /\ sessState' = [sessState EXCEPT ![t] =
                       CASE w = "none" -> "clean"
                         [] w = "add" -> "pending"
                         [] w = "add_commit" -> "clean"
                         [] OTHER -> IF Autocommit(database_url) THEN "clean"
                                     ELSE "flushed"]
                /\ checkedOut' = IF w \in {"add_flush", "add_commit"}
                                 THEN checkedOut \cup {sess[t]} ELSE checkedOut
                /\ table' = IF \/ w = "add_commit"
                               \/ w = "add_flush" /\ Autocommit(database_url)
                            THEN table \cup {sess[t]} ELSE table
    /\ pc' = [pc EXCEPT ![t] = "exit"]
    /\ UNCHANGED <<mgrVars, envVars, probeVars, histVars, sessOwner, openSessions,
                   op, exc, raised, sess, calls, baseline, outVars>>

\* session.commit() has to reach the database when the session holds changes.
CommitFails(st, up) == st # "clean" /\ ~up

\* Mutant of ContextExit: the commit after the yield is missing.
ContextExit_NoCommit(bexc, st, up) ==
    IF bexc = NoExc
    THEN [calls |-> <<"close">>, raised |-> NoExc, stored |-> FALSE]
    ELSE [calls |-> <<"rollback", "close">>, raised |-> bexc, stored |-> FALSE]

\* The exit code of get_session_context(): "yield session; session.commit()"
\* / "except Exception: session.rollback(); raise" / "finally: session.close()".
\* calls: the session methods invoked, in order; raised: what reaches the
\* caller; stored: whether the session's changes became durable by commit.
ContextExit(bexc, st, up) ==
    IF bexc = NoExc
    THEN IF CommitFails(st, up)
         THEN [calls |-> <<"commit", "rollback", "close">>,
               raised |-> Exc("OperationalError", <<"commit failed">>),
               stored |-> FALSE]
         ELSE [calls |-> <<"commit", "close">>, raised |-> NoExc,
               stored |-> st # "clean"]
    ELSE [calls |-> <<"rollback", "close">>, raised |-> bexc, stored |-> FALSE]

\* Mutant of GetDbExit: the "except Exception" clause is missing, so only a
\* database error is rolled back.
GetDbExit_OnlyDatabaseErrors(bexc, st, up) ==
    IF bexc = NoExc \/ bexc.type = "ValueError"
    THEN [calls |-> <<"close">>, raised |-> bexc, stored |-> FALSE]
    ELSE [calls |-> <<"rollback", "close">>, raised |-> bexc, stored |-> FALSE]

\* The exit code of get_db(): "yield session" / "except SQLAlchemyError:
\* session.rollback(); raise" / "except Exception: session.rollback(); raise"
\* / "finally: session.close()".
GetDbExit(bexc, st, up) ==
    IF bexc = NoExc
    THEN [calls |-> <<"close">>, raised |-> NoExc, stored |-> FALSE]
    ELSE [calls |-> <<"rollback", "close">>, raised |-> bexc, stored |-> FALSE]

Invoked(cs, m) == \E i \in DOMAIN cs : cs[i] = m

\* The scope is left: its exit code runs on the session.
Exit(t) ==
    /\ pc[t] = "exit"
    /\ LET x == IF op[t] = "get_db"
                THEN GetDbExit(bodyExc[t], sessState[t], dbUp)
                ELSE ContextExit(bodyExc[t], sessState[t], dbUp)
       IN /\ calls' = [calls EXCEPT ![t] = x.calls]
          /\ raised' = [raised EXCEPT ![t] = x.raised]
          /\ table' = IF x.stored THEN table \cup {sess[t]} ELSE table
          /\ openSessions' = IF Invoked(x.calls, "close")
                             THEN openSessions \ {sess[t]} ELSE openSessions
          /\ checkedOut' = IF x.calls # <<>> THEN checkedOut \ {sess[t]}
                           ELSE checkedOut
    /\ sessState' = [sessState EXCEPT ![t] = "clean"]
    /\ pc' = [pc EXCEPT ![t] = "done"]
    /\ UNCHANGED <<mgrVars, envVars, probeVars, histVars, sessOwner, op, exc, sess,
                   work, bodyExc, baseline, outVars>>

\* -------------------------------------------------------- health check
\* Elapsed times the probe of health_check() may measure, in milliseconds.
ResponseTimes == {1, 25}

\* pool_info: type(pool).__name__, and the names among size / checked_in /
\* checked_out / overflow that the pool object has (a QueuePool has size and
\* overflow; a StaticPool has none of the four).
PoolInfo(url) ==
    LET cls == _get_engine_config(url).poolclass
    IN IF cls = "StaticPool"
       THEN [pool_type |-> "StaticPool", stats |-> {}]
       ELSE [pool_type |-> "QueuePool", stats |-> {"size", "overflow"}]

\* Mutant of HealthTry: the healthy record lacks pool_status.
HealthTry_NoPoolStatus(url, eng, up, cause, ms) ==
    IF eng = 0
    THEN [ret |-> [status |-> "unhealthy",
                   error |-> <<"Database engine not initialized">>,
                   database_url |-> SanitizedUrl(url)],
          exc |-> NoExc]
    ELSE IF up
    THEN [ret |-> [status |-> "healthy",
                   response_time_ms |-> ms,
                   database_url |-> SanitizedUrl(url)],
          exc |-> NoExc]
    ELSE [ret |-> NoRecord, exc |-> ProbeFailure(url, eng, cause, 0)]

\* The try block of health_check(): the early return when the engine is None,
\* the probe and the healthy record; exc is the exception that leaves the
\* block when the probe fails.
HealthTry(url, eng, up, cause, ms) ==
    IF eng = 0
    THEN [ret |-> [status |-> "unhealthy",
                   error |-> <<"Database engine not initialized">>,
                   database_url |-> SanitizedUrl(url)],
          exc |-> NoExc]
    ELSE IF up
    THEN [ret |-> [status |-> "healthy",
                   response_time_ms |-> ms,
                   pool_status |-> PoolInfo(url),
                   database_url |-> SanitizedUrl(url)],
          exc |-> NoExc]
    ELSE [ret |-> NoRecord, exc |-> ProbeFailure(url, eng, cause, 0)]

\* Mutant of health_check: the "except Exception" clause is missing.
health_check_NoRescue(url, eng, up, cause, ms) ==
    LET b == HealthTry(url, eng, up, cause, ms)
    IN [ret |-> b.ret, raised |-> b.exc]

\* health_check(): the try block, and "except Exception as e: return
\* {status: unhealthy, error: str(e), database_url: ...}".
health_check(url, eng, up, cause, ms) ==
    LET b == HealthTry(url, eng, up, cause, ms)
    IN IF b.exc = NoExc
       THEN [ret |-> b.ret, raised |-> NoExc]
       ELSE [ret |-> [status |-> "unhealthy",
                      error |-> b.exc.msg,
                      database_url |-> SanitizedUrl(url)],
             raised |-> NoExc]

\* Mutant of health_check_manager: a failed probe makes the manager drop
\* its engine, as _cleanup() would.
health_check_manager_DropsEngine(m, up) ==
    IF m.engine # 0 /\ ~up
    THEN [m EXCEPT !.engine = 0, !.session_factory = <<>>, !.is_initialized = FALSE]
    ELSE m

\* The manager's fields after health_check(): the method reads self._engine
\* itself, not the engine property, and assigns no attribute of self on any
\* of its paths.
health_check_manager(m, up) == m

\* A caller runs health_check() (also through db_health_check()).
HealthCheck(t) ==
    /\ pc[t] = "idle"
    /\ LET m == health_check_manager(
                    [engine |-> _engine, session_factory |-> _session_factory,
                     base |-> _base, is_initialized |-> _is_initialized], dbUp)
       IN /\ _engine' = m.engine
          /\ _session_factory' = m.session_factory
          /\ _base' = m.base
          /\ _is_initialized' = m.is_initialized
    /\ \E cause \in FailureCauses(database_url), ms \in ResponseTimes :
         LET h == health_check(database_url, _engine, dbUp, cause, ms)
         IN /\ result' = [result EXCEPT ![t] = h.ret]
            /\ raised' = [raised EXCEPT ![t] = h.raised]
            /\ probed' = [probed EXCEPT ![t] =
                             [eng |-> _engine, up |-> dbUp, cause |-> cause, ms |-> ms]]
    /\ closeRun' = 0
    /\ op' = [op EXCEPT ![t] = "health_check"]
    /\ pc' = [pc EXCEPT ![t] = "done"]
    /\ UNCHANGED <<created, disposals, envVars, sessVars, probeVars, scopeVars,
                   closeCalled, closedReady, exc>>

\* -------------------------------------------------------- create_tables
\* A caller runs create_tables() (also through init_db()): "if self._base is
\* None: raise RuntimeError(...)", which "except Exception: ... raise" passes
\* on; else the engine property is read for metadata.create_all(bind=...).
CreateTables(t) ==
    /\ pc[t] = "idle"
    /\ IF _base = "None"
       THEN /\ raised' = [raised EXCEPT ![t] =
                             Exc("RuntimeError", <<"Declarative base not initialized">>)]
            /\ pc' = [pc EXCEPT ![t] = "done"]
       ELSE /\ raised' = raised
            /\ pc' = [pc EXCEPT ![t] = "check"]
    /\ op' = [op EXCEPT ![t] = "create_tables"]
    /\ closeRun' = 0
    /\ UNCHANGED <<mgrVars, envVars, sessVars, probeVars, scopeVars, closeCalled,
                   closedReady, exc, outVars>>

\* ---------------------------------------------------------------- close
\* A caller runs close() (also through close_db()): self._cleanup().
Close(t) ==
    /\ pc[t] = "idle"
    /\ _cleanup
    /\ closeCalled' = TRUE
    /\ closedReady' = (closedReady \/ _is_initialized)
    /\ closeRun' = IF closeRun < MaxCloseRun THEN closeRun + 1 ELSE closeRun
    /\ op' = [op EXCEPT ![t] = "close"]
    /\ pc' = [pc EXCEPT ![t] = "done"]
    /\ UNCHANGED <<envVars, sessVars, probeVars, scopeVars, exc, raised, outVars>>

\* The operation has returned or raised; the caller goes on.
Return(t) ==
    /\ pc[t] = "done"
    /\ pc' = [pc EXCEPT ![t] = "idle"]
    /\ op' = [op EXCEPT ![t] = "none"]
    /\ attempt' = [attempt EXCEPT ![t] = 0]
    /\ probes' = [probes EXCEPT ![t] = 0]
    /\ waits' = [waits EXCEPT ![t] = 0]
    /\ exc' = [exc EXCEPT ![t] = NoExc]
    /\ raised' = [raised EXCEPT ![t] = NoExc]
    /\ sess' = [sess EXCEPT ![t] = 0]
    /\ work' = [work EXCEPT ![t] = "none"]
    /\ sessState' = [sessState EXCEPT ![t] = "clean"]
    /\ calls' = [calls EXCEPT ![t] = <<>>]
    /\ bodyExc' = [bodyExc EXCEPT ![t] = NoExc]
    /\ baseline' = [baseline EXCEPT ![t] = 0]
    /\ result' = [result EXCEPT ![t] = NoRecord]
    /\ probed' = [probed EXCEPT ![t] = NoProbe]
    /\ UNCHANGED <<mgrVars, envVars, sessVars, histVars>>

\* ---------------------------------------------------------- environment
\* The database becomes unreachable, or reachable again.
DbToggle ==
    /\ dbUp' = ~dbUp
    /\ everDown' = TRUE
    /\ UNCHANGED <<database_url, webVars, mgrVars, sessVars, probeVars, scopeVars,
                   histVars, pc, op, exc, raised, outVars>>

\* ------------------------------------------------------- specification
\* One step of an operation of the caller t.
Step(t) ==
    \/ Start(t)
    \/ CheckInitialized(t)
    \/ InitEntry(t)
    \/ CreateEngine(t)
    \/ MakeSessionFactory(t)
    \/ MakeBase(t)
    \/ TestConnectionEntry(t)
    \/ Probe(t)
    \/ Sleep(t)
    \/ SetInitialized(t)
    \/ InitFail(t)
    \/ Post(t)
    \/ Body(t)
    \/ Exit(t)
    \/ HealthCheck(t)
    \/ CreateTables(t)
    \/ Close(t)
    \/ Return(t)

\* One caller runs the operations of the manager one after another, while the
\* database comes and goes.
Next ==
    \/ Step(MainCaller)
    \/ DbToggle

Spec == Init /\ [][Next]_vars

\* The caller keeps executing the operation it has started.
FairSpec == Spec /\ WF_vars(Step(MainCaller))

\* Several callers run the acquiring accessors and close() at the same time;
\* their steps interleave at the statements of _initialize.
AccessorStep(t) ==
    \/ StartAccessor(t)
    \/ CheckInitialized(t)
    \/ InitEntry(t)
    \/ CreateEngine(t)
    \/ MakeSessionFactory(t)
    \/ MakeBase(t)
    \/ TestConnectionEntry(t)
    \/ Probe(t)
    \/ Sleep(t)
    \/ SetInitialized(t)
    \/ InitFail(t)
    \/ Post(t)
    \/ Close(t)
    \/ Return(t)

NextConcurrent ==
    \/ \E t \in Threads : AccessorStep(t)
    \/ DbToggle

SpecConcurrent == Init /\ [][NextConcurrent]_vars

\* ================================================= LoggingMiddleware
\* The manager's state, which the logger and the middleware never touch.
dbVars == <<mgrVars, database_url, dbUp, everDown, sessVars, probeVars, scopeVars,
            histVars, pc, op, exc, raised, outVars>>

\* Mutant of uuid4: every call returns the same value.
uuid4_Constant(n) == 1

\* str(uuid.uuid4()): a value no earlier call has returned (n calls so far).
uuid4(n) == n + 1

\* Mutant of ContextVarSet: the variables are plain module globals.
ContextVarSet_ProcessWide(amb, r, ctx) == [q \in DOMAIN amb |-> ctx]

\* ContextVar.set() in the task of request r: request_id_var and user_id_var
\* are ContextVars, so only the context of the running task changes.
ContextVarSet(amb, r, ctx) == [amb EXCEPT ![r] = ctx]

\* LoggerUtils.set_request_context(request_id, user_id=None): the request id
\* is set; the user id is set only when one is given.
set_request_context(ctx, rid, uid) ==
    [request_id |-> rid, user_id |-> IF uid # "" THEN uid ELSE ctx.user_id]

\* Mutant of clear_request_context: "user_id_var.set(None)" is missing.
clear_request_context_KeepsUser(ctx) == [ctx EXCEPT !.request_id = 0]

\* LoggerUtils.clear_request_context(): both variables are set to None.
clear_request_context(ctx) == [request_id |-> 0, user_id |-> ""]

\* The record of a logger call made in a task whose context is ctx.
InContext(rec, ctx) ==
    [rec EXCEPT !.ctx_request_id = ctx.request_id, !.ctx_user_id = ctx.user_id]

\* Mutant of ReceivedRecord: the record does not carry the request id.
ReceivedRecord_NoId(rid) ==
    Rec("INFO", "Request received", {"request", "method", "path", "headers"})

\* dispatch: logger.info("Request received", extra={"request": True,
\* "request_id": request_id, ...}).
ReceivedRecord(rid) ==
    [Rec("INFO", "Request received", {"request", "request_id", "method", "path", "headers"})
        EXCEPT !.request_id = rid]

\* dispatch: logger.info("Request completed", extra={"request": True,
\* "response": True, "request_id": ..., "status_code": ..., "duration": ...}).
CompletedRecord(rid, status, dur) ==
    [Rec("INFO", "Request completed",
         {"request", "response", "request_id", "status_code", "duration"})
        EXCEPT !.request_id = rid, !.status_code = status, !.duration = dur]

\* dispatch: logger.warning("Slow request detected", extra={"performance":
\* True, "request_id": ..., "duration": ..., ...}).
SlowRecord(rid, dur) ==
    [Rec("WARNING", "Slow request detected",
         {"performance", "request_id", "duration", "threshold"})
        EXCEPT !.request_id = rid, !.duration = dur]

\* dispatch: logger.error("Request failed", extra={"request": True, "error":
\* True, "request_id": ..., "error_type": type(e).__name__, "duration": ...}).
FailedRecord(rid, e, dur) ==
    [Rec("ERROR", "Request failed",
         {"request", "error", "request_id", "error_type", "error_message", "duration"})
        EXCEPT !.request_id = rid, !.error_type = e.type, !.duration = dur]

\* Mutant of Propagated: dispatch raises a new exception in place of e.
Propagated_Wrapped(e) == Exc("RuntimeError", <<"request failed">>)

\* dispatch: the bare "raise" at the end of "except Exception as e": the
\* exception that leaves dispatch is e itself.
Propagated(e) == e

\* Exceptions a downstream handler raises; the message tells them apart.
HandlerErrors ==
    {Exc("ValueError", <<"bad input">>), Exc("KeyError", <<"missing">>)}

\* What call_next(request) can produce for a request.
HandlerOuts ==
    [kind : {"response"}, exc : {NoExc}, status_code : {200, 404},
     duration : Durations, postFail : {"none", "headers", "warning"}]
    \cup
    [kind : {"raise"}, exc : HandlerErrors, status_code : {0},
     duration : Durations, postFail : {"none"}]

\* The exception of a failing step after the handler's return.
PostFailure == Exc("TypeError", <<"post-processing step failed">>)

\* A call of the logger: the record is appended to the calls made so far and
\* every sink that accepts it writes it.
Emit(rec) ==
    /\ emitted' = Append(emitted, rec)
    /\ written' = Deliver(handlers, written, rec, logSettings)
    /\ UNCHANGED <<logSettings, handlers, handlerCount, configs>>

\* A request arrives and the server calls dispatch(request, call_next).
Arrive(r) ==
    /\ rpc[r] = "new"
    /\ \E p \in Paths : reqPath' = [reqPath EXCEPT ![r] = p]
    /\ rpc' = [rpc EXCEPT ![r] = "dispatch"]
    /\ UNCHANGED <<dbVars, cfgVars, appVars, logVars, request_id, uuids, ambient, handlerOut, outcome>>

\* "if request.url.path in self.excluded_paths: return await call_next(request)".
SkipExcluded(r) ==
    /\ rpc[r] = "dispatch"
    /\ reqPath[r] \in excluded_paths
    /\ \E h \in HandlerOuts :
         /\ h.postFail = "none"
         /\ handlerOut' = [handlerOut EXCEPT ![r] = h]
         /\ outcome' = [outcome EXCEPT ![r] =
                           [kind |-> h.kind, exc |-> h.exc,
                            status_code |-> h.status_code, x_request_id |-> 0]]
    /\ rpc' = [rpc EXCEPT ![r] = "done"]
    /\ UNCHANGED <<dbVars, cfgVars, appVars, logVars, reqPath, request_id, uuids, ambient>>

\* "request_id = str(uuid.uuid4()); LoggerUtils.set_request_context(request_id)".
BindRequestId(r) ==
    /\ rpc[r] = "dispatch"
    /\ reqPath[r] \notin excluded_paths
    /\ request_id' = [request_id EXCEPT ![r] = uuid4(uuids)]
    /\ uuids' = uuids + 1
    /\ ambient' = ContextVarSet(ambient, r,
                               set_request_context(ambient[r], uuid4(uuids), ""))
    /\ rpc' = [rpc EXCEPT ![r] = "log_received"]
    /\ UNCHANGED <<dbVars, cfgVars, appVars, logVars, reqPath, handlerOut, outcome>>

\* logger.info("Request received", ...), then start_time = time.time().
LogReceived(r) ==
    /\ rpc[r] = "log_received"
    /\ Emit(InContext(ReceivedRecord(request_id[r]), ambient[r]))
    /\ rpc' = [rpc EXCEPT ![r] = "call_next"]
    /\ UNCHANGED <<dbVars, cfgVars, appVars, reqPath, request_id, uuids, ambient, handlerOut, outcome>>

\* "response = await call_next(request)" and "duration = time.time() -
\* start_time": the downstream handler returns a response or raises; code that
\* ran in the request's context may have set the user id.
CallNext(r) ==
    /\ rpc[r] = "call_next"
    /\ \E h \in HandlerOuts :
         /\ handlerOut' = [handlerOut EXCEPT ![r] = h]
         /\ rpc' = [rpc EXCEPT ![r] =
                       IF h.kind = "raise" THEN "except" ELSE "log_completed"]
    /\ \E uid \in {"", "u7"} :
         ambient' = ContextVarSet(ambient, r,
                                  set_request_context(ambient[r], request_id[r], uid))
    /\ UNCHANGED <<dbVars, cfgVars, appVars, logVars, reqPath, request_id, uuids, outcome>>

\* logger.info("Request completed", ...).
LogCompleted(r) ==
    /\ rpc[r] = "log_completed"
    /\ Emit(InContext(CompletedRecord(request_id[r], handlerOut[r].status_code,
                                      handlerOut[r].duration), ambient[r]))
    /\ rpc' = [rpc EXCEPT ![r] = "set_headers"]
    /\ UNCHANGED <<dbVars, cfgVars, appVars, reqPath, request_id, uuids, ambient, handlerOut, outcome>>

\* response.headers["X-Request-ID"] = request_id and "X-Response-Time"; a
\* failure here is still inside the try block.
SetHeaders(r) ==
    /\ rpc[r] = "set_headers"
    /\ rpc' = [rpc EXCEPT ![r] =
                  IF handlerOut[r].postFail = "headers" THEN "except" ELSE "slow_check"]
    /\ UNCHANGED <<dbVars, cfgVars, appVars, logVars, reqPath, request_id, uuids, ambient, handlerOut,
                   outcome>>

\* What dispatch returns: the handler's response with the X-Request-ID header.
Returned(r) ==
    [kind |-> "response", exc |-> NoExc, status_code |-> handlerOut[r].status_code,
     x_request_id |-> request_id[r]]

\* "if duration > 2.0: logger.warning('Slow request detected', ...)", then
\* "return response"; a failure of the warning is still inside the try block.
SlowCheck(r) ==
    /\ rpc[r] = "slow_check"
    /\ IF handlerOut[r].duration > SlowThreshold
       THEN IF handlerOut[r].postFail = "warning"
            THEN /\ rpc' = [rpc EXCEPT ![r] = "except"]
                 /\ UNCHANGED <<logVars, outcome>>
            ELSE /\ Emit(InContext(SlowRecord(request_id[r], handlerOut[r].duration),
                                   ambient[r]))
                 /\ rpc' = [rpc EXCEPT ![r] = "finally"]
                 /\ outcome' = [outcome EXCEPT ![r] = Returned(r)]
       ELSE /\ rpc' = [rpc EXCEPT ![r] = "finally"]
            /\ outcome' = [outcome EXCEPT ![r] = Returned(r)]
            /\ UNCHANGED logVars
    /\ UNCHANGED <<dbVars, cfgVars, appVars, reqPath, request_id, uuids, ambient, handlerOut>>

\* The exception the try block of dispatch has raised for a request.
InFlight(r) ==
    IF handlerOut[r].kind = "raise" THEN handlerOut[r].exc ELSE PostFailure

\* "except Exception as e: duration = ...; logger.error('Request failed',
\* ...); raise".
Except(r) ==
    /\ rpc[r] = "except"
    /\ Emit(InContext(FailedRecord(request_id[r], InFlight(r), handlerOut[r].duration),
                      ambient[r]))
    /\ outcome' = [outcome EXCEPT ![r] =
                      [kind |-> "raise", exc |-> Propagated(InFlight(r)),
                       status_code |-> 0, x_request_id |-> 0]]
    /\ rpc' = [rpc EXCEPT ![r] = "finally"]
    /\ UNCHANGED <<dbVars, cfgVars, appVars, reqPath, request_id, uuids, ambient, handlerOut>>

\* "finally: LoggerUtils.clear_request_context()"; then dispatch returns the
\* response or the exception leaves it.
Finally(r) ==
    /\ rpc[r] = "finally"
    /\ ambient' = ContextVarSet(ambient, r, clear_request_context(ambient[r]))
    /\ rpc' = [rpc EXCEPT ![r] = "done"]
    /\ UNCHANGED <<dbVars, cfgVars, appVars, logVars, reqPath, request_id, uuids, handlerOut, outcome>>

\* Code that runs in the request's task after dispatch has finished calls the
\* logger.
LateEmit(r) ==
    /\ rpc[r] = "done"
    /\ Emit(InContext(Rec("INFO", "Background work", {}), ambient[r]))
    /\ rpc' = [rpc EXCEPT ![r] = "after"]
    /\ UNCHANGED <<dbVars, cfgVars, appVars, reqPath, request_id, uuids, ambient, handlerOut, outcome>>

\* One step of dispatch for the request r.
DispatchStep(r) ==
    \/ Arrive(r)
    \/ SkipExcluded(r)
    \/ BindRequestId(r)
    \/ LogReceived(r)
    \/ CallNext(r)
    \/ LogCompleted(r)
    \/ SetHeaders(r)
    \/ SlowCheck(r)
    \/ Except(r)
    \/ Finally(r)
    \/ LateEmit(r)

\* The requests are handled concurrently: their steps interleave at the
\* awaits and at every statement (worker threads).
NextRequests == \E r \in Requests : DispatchStep(r)

\* The requests are served on the default configuration.
InitRequests == Init /\ database_url = SqliteUrl

SpecRequests == InitRequests /\ [][NextRequests]_vars

\* ====================================================== LoggerConfig
\* LoggerConfig objects constructed in one behaviour.
MaxConfigs == 2
\* Logger calls made in one behaviour of the logger alone.
MaxEmits == 2

\* The logger calls made on a configured logger: the records of the
\* middleware, plain records at four levels, a record tagged as a request
\* below INFO, and a record whose "request" key was bound with bind().
LogCalls ==
    {ReceivedRecord(1), CompletedRecord(1, 200, 1), SlowRecord(1, 3),
     FailedRecord(1, Exc("ValueError", <<"bad input">>), 1)}
    \cup {Rec(l, "Plain", {}) : l \in {"DEBUG", "INFO", "WARNING", "ERROR"}}
    \cup {Rec("DEBUG", "Request trace", {"request"})}
    \cup {[Rec("INFO", "Bound", {}) EXCEPT !.bound = {"request"}]}

\* The logger has been configured once, with some settings.
InitLogging ==
    /\ ManagerInit
    /\ database_url = SqliteUrl
    /\ RequestsInit
    /\ SettingsInit
    /\ AppInit
    /\ logSettings \in LogSettingsChoices
    /\ handlers = _setup_logger(logSettings, DefaultCore).handlers
    /\ handlerCount = _setup_logger(logSettings, DefaultCore).count
    /\ configs = 1
    /\ emitted = <<>>
    /\ written = [d \in Dests |-> <<>>]

\* LoggerConfig(settings) is constructed again (setup_logging is called
\* again) with the same settings: __init__ runs _setup_logger.
LoggerConfig ==
    /\ configs < MaxConfigs
    /\ configs' = configs + 1
    /\ LET core == _setup_logger(logSettings, [handlers |-> handlers, count |-> handlerCount])
       IN /\ handlers' = core.handlers
          /\ handlerCount' = core.count
    /\ UNCHANGED <<dbVars, cfgVars, appVars, reqVars, logSettings, emitted, written>>

\* Some code calls the logger.
LogCall ==
    /\ Len(emitted) < MaxEmits
    /\ \E rec \in LogCalls : Emit(rec)
    /\ UNCHANGED <<dbVars, cfgVars, appVars, reqVars>>

NextLogging ==
    \/ LoggerConfig
    \/ LogCall

SpecLogging == InitLogging /\ [][NextLogging]_vars

\* ======================================================= units of work
\* One step of a caller that runs units of work on a reachable database.
UnitStep(t) ==
    \/ Start(t)
    \/ CheckInitialized(t)
    \/ InitEntry(t)
    \/ CreateEngine(t)
    \/ MakeSessionFactory(t)
    \/ MakeBase(t)
    \/ TestConnectionEntry(t)
    \/ Probe(t)
    \/ SetInitialized(t)
    \/ Post(t)
    \/ Body(t)
    \/ Exit(t)
    \/ Return(t)

\* Several callers (request handlers, repositories) run units of work at
\* the same time.
NextUnits == \E t \in Threads : UnitStep(t)

SpecUnits == Init /\ [][NextUnits]_vars

\* ================================================ startup and shutdown
\* str.lower() on the texts the environment option takes.
Lower(text) ==
    CASE text = "Production" -> "production"
      [] OTHER -> text

\* The process runs with some environment and debug setting.
InitLifecycle ==
    /\ ManagerInit
    /\ LoggerInit
    /\ RequestsInit
    /\ AppInit
    /\ environ \in {env \in Environs :
                      /\ \A o \in Options \ {"environment", "debug"} : ~env[o].set
                      /\ \A o \in Options : env[o].set => ValidFor(o, env[o].text)}
    /\ settings = LoadSettings(environ)
    /\ cleaned = "none"

\* startup_event(): init_db() calls db_manager.create_tables(), whose first
\* test is "if self._base is None: raise RuntimeError(...)"; every exception
\* is logged and raised again ("raise e").
StartupEvent(t) ==
    /\ pc[t] = "idle"
    /\ IF _base = "None"
       THEN /\ raised' = [raised EXCEPT ![t] =
                             Exc("RuntimeError", <<"Declarative base not initialized">>)]
            /\ pc' = [pc EXCEPT ![t] = "done"]
       ELSE /\ raised' = raised
            /\ pc' = [pc EXCEPT ![t] = "check"]
    /\ op' = [op EXCEPT ![t] = "startup_event"]
    /\ closeRun' = 0
    /\ UNCHANGED <<mgrVars, envVars, sessVars, probeVars, scopeVars, closeCalled,
                   closedReady, exc, outVars>>

\* startup_event(): "health = db_health_check()" after init_db() returned.
StartupHealth(t) ==
    /\ pc[t] = "startup_health"
    /\ \E cause \in FailureCauses(database_url), ms \in ResponseTimes :
         LET h == health_check(database_url, _engine, dbUp, cause, ms)
         IN /\ result' = [result EXCEPT ![t] = h.ret]
            /\ raised' = [raised EXCEPT ![t] = h.raised]
            /\ probed' = [probed EXCEPT ![t] =
                             [eng |-> _engine, up |-> dbUp, cause |-> cause, ms |-> ms]]
    /\ pc' = [pc EXCEPT ![t] = "done"]
    /\ UNCHANGED <<mgrVars, envVars, sessVars, probeVars, scopeVars, histVars, op, exc>>

\* shutdown_event(): "if settings.environment.lower() in ['development',
\* 'dev'] or settings.debug: await cleanup_pycache()".
CleanupDecision(st) ==
    IF Lower(st.environment) \in {"development", "dev"} \/ st.debug
    THEN "called" ELSE "skipped"

\* shutdown_event(): close_db(), which is db_manager.close(), then the
\* cleanup of __pycache__ when the settings ask for it.
ShutdownEvent(t) ==
    /\ pc[t] = "idle"
    /\ _cleanup
    /\ closeCalled' = TRUE
    /\ closedReady' = (closedReady \/ _is_initialized)
    /\ closeRun' = IF closeRun < MaxCloseRun THEN closeRun + 1 ELSE closeRun
    /\ cleaned' = CleanupDecision(settings)
    /\ op' = [op EXCEPT ![t] = "shutdown_event"]
    /\ pc' = [pc EXCEPT ![t] = "done"]
    /\ UNCHANGED <<database_url, dbUp, everDown, logVars, reqVars, environ, settings,
                   appVars, sessVars, probeVars, scopeVars, exc, raised, outVars>>

\* One step of the application's lifecycle: startup, shutdown, or an access
\* to the manager in between.
LifecycleStep(t) ==
    \/ StartupEvent(t)
    \/ StartupHealth(t)
    \/ ShutdownEvent(t)
    \/ StartAccessor(t)
    \/ CheckInitialized(t)
    \/ InitEntry(t)
    \/ CreateEngine(t)
    \/ MakeSessionFactory(t)
    \/ MakeBase(t)
    \/ TestConnectionEntry(t)
    \/ Probe(t)
    \/ Sleep(t)
    \/ SetInitialized(t)
    \/ InitFail(t)
    \/ Post(t)
    \/ Return(t)

NextLifecycle ==
    \/ LifecycleStep(MainCaller)
    \/ DbToggle

SpecLifecycle == InitLifecycle /\ [][NextLifecycle]_vars

\* ========================================================== Settings
\* The process starts in some environment; no Settings object exists yet.
InitSettings ==
    /\ ManagerInit
    /\ database_url = SqliteUrl
    /\ LoggerInit
    /\ RequestsInit
    /\ AppInit
    /\ environ \in Environs
    /\ settings = Unloaded
    /\ cleaned = "none"

\* "settings = Settings()" (settings.py, at import).
ConstructSettings ==
    /\ settings.status = "unloaded"
    /\ settings' = LoadSettings(environ)
    /\ UNCHANGED <<dbVars, logVars, reqVars, appVars, environ, cleaned>>

NextSettings == ConstructSettings

SpecSettings == InitSettings /\ [][NextSettings]_vars

\* ===================================================== logged headers
\* dict(request.headers): one key per header name, in the spelling sent;
\* Headers.__getitem__ returns the value of the first line with that name.
dict(headers) ==
    [k \in {headers[i].name : i \in DOMAIN headers} |->
        LET first == CHOOSE i \in DOMAIN headers :
                        /\ headers[i].name = k
                        /\ \A j \in DOMAIN headers : headers[j].name = k => i <= j
        IN  headers[first].value]

\* Mutant of _filter_sensitive_headers: the name is compared as sent.
_filter_sensitive_headers_CaseSensitive(headers) ==
    [key \in DOMAIN headers |->
        IF key \in sensitive_headers THEN "[REDACTED]" ELSE headers[key]]

\* _filter_sensitive_headers: a new dict with the same keys, the value
\* replaced where key.lower() is one of self.sensitive_headers.
_filter_sensitive_headers(headers) ==
    [key \in DOMAIN headers |->
        IF LowerName(key) \in sensitive_headers THEN "[REDACTED]" ELSE headers[key]]

\* A request arrives with some header lines.
InitHeaders ==
    /\ ManagerInit
    /\ database_url = SqliteUrl
    /\ LoggerInit
    /\ RequestsInit
    /\ SettingsInit
    /\ UsersInit
    /\ reqHeaders \in HeaderLists
    /\ recHeaders = NotLogged

\* dispatch builds the extra of 'Request received':
\* "headers": self._filter_sensitive_headers(dict(request.headers)); the
\* filter works on the copy dict() made and request.headers is not assigned.
LogRequestHeaders ==
    /\ ~recHeaders.logged
    /\ recHeaders' = [logged |-> TRUE,
                      headers |-> _filter_sensitive_headers(dict(reqHeaders))]
    /\ UNCHANGED <<dbVars, logVars, reqVars, cfgVars, userVars, reqHeaders>>

NextHeaders == LogRequestHeaders

SpecHeaders == InitHeaders /\ [][NextHeaders]_vars

\* ======================================================= creating users
\* The UserCreate payloads of the calls.
UserCreates == {[email |-> e, username |-> u] : e \in Emails, u \in Usernames}

\* get_by_field(field, value): ".filter(field == value).first()" in a session
\* of its own; TRUE when a row is returned.
get_by_field(rows, field, value) == \E row \in rows : row[field] = value

\* models/user.py: email and username are unique columns; a NULL username
\* equals no other.
UniqueViolation(rows, obj) ==
    \/ \E row \in rows : row.email = obj.email
    \/ /\ obj.username # NoUsername
       /\ \E row \in rows : row.username = obj.username

\* BaseRepository.create: add and commit inside get_db_context(); a commit
\* that breaks a unique constraint raises IntegrityError, which
\* get_session_context rolls back and raises again.
create(rows, obj) ==
    IF UniqueViolation(rows, obj)
    THEN [rows |-> rows, error |-> "IntegrityError"]
    ELSE [rows |-> rows \cup {obj}, error |-> "none"]

\* UserController.create_user: the service's result is returned; ValueError
\* becomes HTTP 400 and every other exception HTTP 500.
ControllerStatus(error) ==
    CASE error = "none" -> 200
      [] error = "ValueError" -> 400
      [] OTHER -> 500

\* A caller enters UserService.create_user(user_data).
CreateUserStart(t) ==
    /\ upc[t] = "idle"
    /\ \E d \in UserCreates : user_data' = [user_data EXCEPT ![t] = d]
    /\ upc' = [upc EXCEPT ![t] = "get_by_email"]
    /\ UNCHANGED <<dbVars, logVars, reqVars, cfgVars, hdrVars, users, existing, response>>

\* "existing_user = self.user_repo.get_by_email(user_data.email)" and
\* "if existing_user: raise ValueError(...)".
GetByEmail(t) ==
    /\ upc[t] = "get_by_email"
    /\ existing' = [existing EXCEPT ![t] = get_by_field(users, "email", user_data[t].email)]
    /\ IF get_by_field(users, "email", user_data[t].email)
       THEN /\ response' = [response EXCEPT ![t].error = "ValueError"]
            /\ upc' = [upc EXCEPT ![t] = "controller"]
       ELSE /\ upc' = [upc EXCEPT ![t] =
                         IF user_data[t].username # NoUsername
                         THEN "get_by_username" ELSE "create"]
            /\ UNCHANGED response
    /\ UNCHANGED <<dbVars, logVars, reqVars, cfgVars, hdrVars, users, user_data>>

\* "if user_data.username: existing_username = get_by_username(...)" and
\* "if existing_username: raise ValueError(...)".
GetByUsername(t) ==
    /\ upc[t] = "get_by_username"
    /\ existing' = [existing EXCEPT ![t] =
                        get_by_field(users, "username", user_data[t].username)]
    /\ IF get_by_field(users, "username", user_data[t].username)
       THEN /\ response' = [response EXCEPT ![t].error = "ValueError"]
            /\ upc' = [upc EXCEPT ![t] = "controller"]
       ELSE /\ upc' = [upc EXCEPT ![t] = "create"]
            /\ UNCHANGED response
    /\ UNCHANGED <<dbVars, logVars, reqVars, cfgVars, hdrVars, users, user_data>>

\* "user = self.user_repo.create(user_dict)"; "except Exception: ... raise"
\* of the service passes the exception on.
Create(t) ==
    /\ upc[t] = "create"
    /\ users' = create(users, user_data[t]).rows
    /\ response' = [response EXCEPT ![t].error = create(users, user_data[t]).error]
    /\ upc' = [upc EXCEPT ![t] = "controller"]
    /\ UNCHANGED <<dbVars, logVars, reqVars, cfgVars, hdrVars, user_data, existing>>

\* The controller returns the response or raises the HTTPException.
ControllerReturn(t) ==
    /\ upc[t] = "controller"
    /\ response' = [response EXCEPT ![t].status = ControllerStatus(response[t].error)]
    /\ upc' = [upc EXCEPT ![t] = "done"]
    /\ UNCHANGED <<dbVars, logVars, reqVars, cfgVars, hdrVars, users, user_data, existing>>

\* One step of a call of create_user.
CreateUserStep(t) ==
    \/ CreateUserStart(t)
    \/ GetByEmail(t)
    \/ GetByUsername(t)
    \/ Create(t)
    \/ ControllerReturn(t)

\* Calls of create_user made by several workers on one database interleave
\* at the repository calls.
NextUsers == \E t \in Threads : CreateUserStep(t)

InitUsers == Init /\ database_url = SqliteUrl

SpecUsers == InitUsers /\ [][NextUsers]_vars

\* ================================================================ claims
\* A caller whose operation has returned or raised and has not gone on yet.
Done(t, ops) == pc[t] = "done" /\ op[t] \in ops
\* A caller whose scoped unit of work has run its body and left the scope.
ScopeDone(t, ops) == Done(t, ops) /\ sess[t] # 0

\* C1: while the database stays reachable and close() is not called, the
\* engine is constructed exactly once, however the acquiring accesses of the
\* callers interleave: never twice, and once as soon as one access has returned.
C1_EngineBuiltOnce ==
    (~everDown /\ ~closeCalled) =>
        /\ created <= 1
        /\ \A t \in Threads :
             Done(t, AcquiringOps \cup ScopeOps) /\ raised[t] = NoExc => created = 1

C3_EveryScopeCommits ==
    \A t \in Threads :
        ScopeDone(t, ScopeOps) /\ bodyExc[t] = NoExc =>
            calls[t] = <<"commit", "close">>

\* C3 amended: a get_session_context() whose body completes without raising
\* has commit invoked first and close last, rollback is invoked exactly when
\* that commit itself raises, and when the commit succeeds the changes of the
\* session are stored; a get_db() whose body completes without raising has
\* only close invoked: neither commit nor rollback.
C3_ContextCommitsGetDbOnlyCloses ==
    \A t \in Threads :
        /\ ScopeDone(t, {"get_session_context"}) /\ bodyExc[t] = NoExc =>
             /\ Head(calls[t]) = "commit"
             /\ calls[t][Len(calls[t])] = "close"
             /\ Invoked(calls[t], "rollback") <=> raised[t] # NoExc
             /\ raised[t] = NoExc /\ work[t] # "none" => sess[t] \in table
        /\ ScopeDone(t, {"get_db"}) /\ bodyExc[t] = NoExc =>
             calls[t] = <<"close">>

\* C3 witness: a get_session_context() scope that added a row and completed
\* has been left with the row stored.
C3_Witness ==
    \E t \in Threads :
        /\ ScopeDone(t, {"get_session_context"})
        /\ bodyExc[t] = NoExc
        /\ work[t] = "add"
        /\ calls[t] = <<"commit", "close">>
        /\ sess[t] \in table

ProbeExhausted(t) ==
    /\ Done(t, AcquiringOps \cup ScopeOps)
    /\ sess[t] = 0
    /\ raised[t].attempt > 0

ManagerUninitialized ==
    /\ _engine = 0
    /\ _session_factory = <<>>
    /\ _base = "None"
    /\ ~_is_initialized

\* C5: when the probe has failed on all 3 attempts of one initialization, the
\* engine that initialization built has been disposed, the manager is
\* uninitialized (engine, session factory and base absent, flag false) and the
\* failure of the last attempt has reached the caller; an initialization that
\* follows works on an engine of its own, newly built and not disposed.
C5_ProbeExhaustionRollsBack ==
    \A t \in Threads :
        /\ ProbeExhausted(t) =>
             /\ probes[t] = _connection_retry_attempts
             /\ raised[t].attempt = _connection_retry_attempts
             /\ raised[t].type = "OperationalError"
             /\ disposals[created] = 1
             /\ ManagerUninitialized
        /\ pc[t] \in {"make_factory", "make_base", "test_connection", "probe", "sleep"} =>
             /\ _engine = created
             /\ disposals[created] = 0
             /\ \A e \in 1..(created - 1) : disposals[e] = 1

\* C5 witness: after one initialization failed by probe exhaustion, a later
\* access built a second engine and failed in the same way.
C5_Witness ==
    \E t \in Threads :
        /\ ProbeExhausted(t)
        /\ created = 2
        /\ disposals[1] = 1
        /\ disposals[2] = 1

\* The counters of one run of _test_connection stay within the retry policy.
ProbePolicy(t) ==
    /\ probes[t] <= _connection_retry_attempts
    /\ waits[t] <= _connection_retry_attempts - 1
    /\ pc[t] = "probe" => waits[t] = probes[t]
    /\ pc[t] = "sleep" => waits[t] = probes[t] - 1 /\ exc[t] # NoExc
    /\ pc[t] = "set_initialized" => waits[t] = probes[t] - 1
    /\ pc[t] = "init_fail" /\ probes[t] > 0 =>
         /\ probes[t] = _connection_retry_attempts
         /\ waits[t] = _connection_retry_attempts - 1
         /\ exc[t] # NoExc
    /\ pc[t] = "post" /\ probes[t] > 0 => _is_initialized

\* C6: one initialization probes at most 3 times and sleeps at most twice, each
\* sleep follows a failed attempt and precedes the next one (none after the
\* last), the first successful attempt ends the probing and the manager becomes
\* ready; and the probing always ends, in success or in failure.
C6_ProbeIsBoundedAndEnds ==
    /\ [](\A t \in Threads : ProbePolicy(t))
    /\ \A t \in Threads :
         (pc[t] \in {"test_connection", "probe", "sleep"})
             ~> (pc[t] \in {"set_initialized", "init_fail"})

\* C6 witness: the third attempt succeeded after two failed attempts and two
\* sleeps.
C6_Witness ==
    \E t \in Threads :
        /\ pc[t] = "set_initialized"
        /\ probes[t] = 3
        /\ waits[t] = 2

\* C7: health_check() returns a record and raises nothing, whatever the state
\* of the manager and the outcome of the probe query; when the engine is absent
\* or the database is unreachable the record has status "unhealthy" and a
\* non-empty error text.
C7_HealthCheckNeverRaises ==
    \A t \in Threads :
        Done(t, {"health_check"}) =>
            /\ raised[t] = NoExc
            /\ result[t].status \in {"healthy", "unhealthy"}
            /\ result[t].status = "healthy" <=> (probed[t].eng # 0 /\ probed[t].up)
            /\ result[t].status = "unhealthy" =>
                 /\ "error" \in DOMAIN result[t]
                 /\ result[t].error # <<>>
                 /\ \A i \in DOMAIN result[t].error : result[t].error[i] # ""

\* C7 witness: health_check() ran on a ready manager while the database was
\* unreachable.
C7_Witness ==
    \E t \in Threads :
        /\ Done(t, {"health_check"})
        /\ _is_initialized
        /\ probed[t].eng # 0
        /\ ~probed[t].up
        /\ result[t].status = "unhealthy"

HealthFields == {"status", "response_time_ms", "pool_status", "database_url"}

Users == {"alice", "bob"}
Passwords == {"pw-alice", "pw-bob"}
\* The URLs that differ from url at most in user name and password.
CredentialVariants(url) ==
    IF UrlUser(url) = "" THEN {url}
    ELSE {[url EXCEPT ![3] = u, ![5] = p] : u \in Users, p \in Passwords}

\* C9: the record health_check() returns does not depend on the credentials of
\* the database URL: a configuration that differs only in user name and
\* password gets, for the same probe outcome, a record equal in every field.
C9_RecordIndependentOfCredentials ==
    \A t \in Threads :
        Done(t, {"health_check"}) =>
            \A u \in CredentialVariants(database_url) :
                health_check(u, probed[t].eng, probed[t].up, probed[t].cause,
                             probed[t].ms).ret = result[t]

\* C10: close() completes without error on a manager that is closed or was
\* never initialized; after any number of consecutive close() calls the manager
\* is in the state one call leaves (engine, session factory and base absent,
\* flag false), and no engine has been disposed more than once.
C10_CloseIsIdempotent ==
    /\ \A e \in EngineIds : disposals[e] <= 1
    /\ \A t \in Threads :
         Done(t, {"close"}) =>
             /\ raised[t] = NoExc
             /\ ManagerUninitialized
             /\ \A e \in 1..created : disposals[e] = 1

\* C10 witness: close() was called twice in a row on a manager that had been
\* ready.
C10_Witness ==
    \E t \in Threads :
        /\ Done(t, {"close"})
        /\ closeRun = 2
        /\ created = 1
        /\ disposals[1] = 1

\* C11: once close() has been called on a ready manager, the manager is never
\* ready again, whatever operation is called on it afterwards.
C11_ClosedIsTerminal ==
    closedReady => ~_is_initialized

\* C12: between operations (no operation in progress) the engine and the
\* session factory are both present or both absent, and a present session
\* factory is bound to the present engine.
C12_EngineAndFactoryTogether ==
    (\A t \in Threads : pc[t] \in {"idle", "done"}) =>
        /\ (_engine = 0) <=> (_session_factory = <<>>)
        /\ _engine # 0 => _session_factory = <<_engine>>

\* C12 witness: between two operations, after a close() and a later
\* initialization, the second engine and a session factory bound to it are
\* both present.
C12_Witness ==
    /\ \A t \in Threads : pc[t] = "idle"
    /\ closeCalled
    /\ _engine = 2
    /\ _session_factory = <<2>>

\* ------------------------------------------------- requests (C13 .. C17)
\* The request was given to dispatch on a path that is logged.
Logged(r) == reqPath[r] \in Paths \ excluded_paths
\* dispatch has returned to its caller or an exception has left it.
Finished(r) == rpc[r] \in {"done", "after"}
\* Positions in emitted of the records with this message and request id.
RecordsOf(rid, message) ==
    {i \in DOMAIN emitted :
        emitted[i].message = message /\ emitted[i].request_id = rid}
\* The records that end a request.
TerminalMessages == {"Request completed", "Request failed"}

\* C13: a 'Request completed' or 'Request failed' record is preceded in the
\* order of emission by a 'Request received' record with the same request_id,
\* and a request that has passed the start of dispatch on a logged path has its
\* 'Request received' record, however the requests interleave.
C13_ReceivedBeforeTerminal ==
    /\ \A i \in DOMAIN emitted :
         emitted[i].message \in TerminalMessages =>
             \E j \in 1..(i - 1) :
                 /\ emitted[j].message = "Request received"
                 /\ emitted[j].request_id = emitted[i].request_id
    /\ \A r \in Requests :
         Logged(r) /\ rpc[r] \notin {"dispatch", "log_received"} =>
             Cardinality(RecordsOf(request_id[r], "Request received")) = 1

\* C13 witness: two requests interleave: both 'Request received' records are
\* emitted before either terminal record, and both requests have finished,
\* one completed and one failed.
C13_Witness ==
    /\ \A r \in Requests : Logged(r) /\ Finished(r)
    /\ Len(emitted) >= 4
    /\ emitted[1].message = "Request received"
    /\ emitted[2].message = "Request received"
    /\ \E i, j \in DOMAIN emitted :
         /\ emitted[i].message = "Request completed"
         /\ emitted[j].message = "Request failed"

\* C14: once dispatch has bound a request id and has returned or let an
\* exception out, request_id and user_id of the request's context are None.
C14_ContextClearedOnExit ==
    \A r \in Requests :
        Finished(r) /\ request_id[r] # 0 => ambient[r] = NoContext

\* C14 witness: one request whose handler raised and one whose handler
\* returned have both left dispatch with a request id bound.
C14_Witness ==
    \E r1, r2 \in Requests :
        /\ Finished(r1) /\ request_id[r1] # 0 /\ handlerOut[r1].kind = "raise"
        /\ Finished(r2) /\ request_id[r2] # 0 /\ handlerOut[r2].kind = "response"

\* The 'Request failed' record of a request whose handler raised: exactly one,
\* with the class of the exception and the duration.
OneFailedRecord(r) ==
    /\ Cardinality(RecordsOf(request_id[r], "Request failed")) = 1
    /\ \A i \in RecordsOf(request_id[r], "Request failed") :
         /\ {"error_type", "duration"} \subseteq emitted[i].extra
         /\ emitted[i].error_type = handlerOut[r].exc.type
         /\ emitted[i].duration = handlerOut[r].duration

\* C15 as stated: for every request whose handler raised, whatever its path,
\* dispatch has emitted exactly one 'Request failed' record with the error
\* type and the duration, and its caller observes the handler's exception.
C15_EveryRaiseLoggedOnce ==
    \A r \in Requests :
        Finished(r) /\ handlerOut[r].kind = "raise" =>
            /\ OneFailedRecord(r)
            /\ outcome[r].kind = "raise"
            /\ outcome[r].exc = handlerOut[r].exc

\* C15 amended: the caller of dispatch always observes the handler's own
\* exception; exactly one 'Request failed' record with the error type and the
\* duration is emitted for it when the path is logged, and none when the path
\* is excluded (every 'Request failed' record belongs to a logged request).
C15_RaiseLoggedOnceOnLoggedPaths ==
    /\ \A r \in Requests :
         Finished(r) /\ handlerOut[r].kind = "raise" =>
             /\ outcome[r].kind = "raise"
             /\ outcome[r].exc = handlerOut[r].exc
             /\ Logged(r) => OneFailedRecord(r)
             /\ ~Logged(r) => request_id[r] = 0
    /\ \A i \in DOMAIN emitted :
         emitted[i].message = "Request failed" =>
             \E r \in Requests : Logged(r) /\ emitted[i].request_id = request_id[r]

\* C15 witness: a handler has raised on a logged path and another on an
\* excluded path, and both exceptions have left dispatch.
C15_Witness ==
    \E r1, r2 \in Requests :
        /\ Finished(r1) /\ Logged(r1) /\ handlerOut[r1].kind = "raise"
        /\ Finished(r2) /\ ~Logged(r2) /\ handlerOut[r2].kind = "raise"

\* C16: a 'Request completed' record has exactly one 'Request received'
\* record with its request_id, and a finished request whose handler returned
\* has one of each with its own id; the ids of different requests differ; a
\* record emitted in the request's task after dispatch has finished carries no
\* request id, neither in its extra nor from the ambient context.
C16_RequestIdRoundTrip ==
    /\ \A i \in DOMAIN emitted :
         emitted[i].message = "Request completed" =>
             /\ emitted[i].request_id # 0
             /\ Cardinality(RecordsOf(emitted[i].request_id, "Request received")) = 1
    /\ \A r \in Requests :
         Logged(r) /\ Finished(r) /\ handlerOut[r].kind = "response" =>
             /\ Cardinality(RecordsOf(request_id[r], "Request received")) = 1
             /\ Cardinality(RecordsOf(request_id[r], "Request completed")) = 1
    /\ \A r1, r2 \in Requests :
         r1 # r2 /\ request_id[r1] # 0 => request_id[r1] # request_id[r2]
    /\ \A i \in DOMAIN emitted :
         emitted[i].message = "Background work" =>
             emitted[i].request_id = 0 /\ emitted[i].ctx_request_id = 0

\* C16 witness: two logged requests have completed and a record has been
\* emitted in the task of each after its dispatch finished.
C16_Witness ==
    /\ \A r \in Requests :
         Logged(r) /\ rpc[r] = "after" /\ handlerOut[r].kind = "response"
    /\ \E i \in DOMAIN emitted : emitted[i].message = "Background work"

\* C17: a finished request on a logged path has exactly one terminal record:
\* one 'Request completed' or one 'Request failed', never both, never none.
C17_ExactlyOneTerminalRecord ==
    \A r \in Requests :
        Logged(r) /\ Finished(r) =>
            Cardinality(RecordsOf(request_id[r], "Request completed"))
              + Cardinality(RecordsOf(request_id[r], "Request failed")) = 1

\* --------------------------------------------------- sinks (C18 .. C20)
\* The records among the logger calls whose level is at or above a level.
AtOrAbove(level) ==
    LET Test(rec) == LevelNo(rec.level) >= LevelNo(level)
    IN SelectSeq(emitted, Test)

\* C18: with the exception sink enabled, logs/exception.log holds exactly the
\* records at or above log_exception_level; with the console sink / the file
\* sink enabled, stdout / the log file holds exactly the records at or above
\* log_level; so with INFO and ERROR an INFO record is in the primary sinks
\* only and an ERROR record in both.
C18_SinksFollowThresholds ==
    /\ logSettings.log_exception =>
         written[logSettings.log_exception_file] =
             AtOrAbove(logSettings.log_exception_level)
    /\ logSettings.log_console =>
         written["stdout"] = AtOrAbove(logSettings.log_level)
    /\ logSettings.log_file # "" =>
         written[logSettings.log_file] = AtOrAbove(logSettings.log_level)

\* C18 witness: with every sink enabled, log_level INFO and
\* log_exception_level ERROR, an INFO record and an ERROR record have been
\* logged: both are on stdout and in the log file, only the ERROR record is in
\* the exception log.
C18_Witness ==
    /\ logSettings = DefaultLogSettings
    /\ Len(emitted) = 2
    /\ emitted[1].level = "INFO"
    /\ emitted[2].level = "ERROR"
    /\ written["stdout"] = emitted
    /\ written["logs/app.log"] = emitted
    /\ written["logs/exception.log"] = <<emitted[2]>>

\* C19: logs/requests.log holds exactly the records that carry a "request"
\* key in the extra dictionary the caller passed and are at INFO or above: the
\* middleware's received, completed and failed records are among them, and no
\* record without that key is.
C19_RequestSinkHoldsTaggedRecords ==
    LET Tagged(rec) == "request" \in rec.extra /\ LevelNo(rec.level) >= LevelNo("INFO")
    IN /\ written["logs/requests.log"] = SelectSeq(emitted, Tagged)
       /\ \A i \in DOMAIN emitted :
            emitted[i].message \in {"Request received", "Request completed",
                                    "Request failed"}
              => \E j \in DOMAIN written["logs/requests.log"] :
                     written["logs/requests.log"][j] = emitted[i]

\* C19 witness: the middleware's 'Request received' record and its untagged
\* slow-request warning have been logged; only the first is in the request
\* log.
C19_Witness ==
    /\ Len(emitted) = 2
    /\ emitted[1].message = "Request received"
    /\ emitted[2].message = "Slow request detected"
    /\ written["logs/requests.log"] = <<emitted[1]>>

\* The sinks of a registry without their ids.
Sinks(hs) == {[dest |-> h.dest, level |-> h.level, filter |-> h.filter] : h \in hs}

\* C20: after any number of constructions of LoggerConfig with the same
\* settings the registry holds the sinks one construction registers, one sink
\* per destination, and every destination holds a record at most once.
C20_ConfigureIsIdempotent ==
    /\ Sinks(handlers) = Sinks(_setup_logger(logSettings, DefaultCore).handlers)
    /\ \A h1, h2 \in handlers : h1.dest = h2.dest => h1 = h2
    /\ \A d \in Dests :
         LET WrittenTo(rec) == \E h \in handlers : h.dest = d /\ Accepts(h, rec, logSettings)
         IN written[d] = SelectSeq(emitted, WrittenTo)

\* C20 witness: LoggerConfig has been constructed twice, the second
\* construction has given the sinks new ids, and a record logged afterwards
\* has been written to stdout once.
C20_Witness ==
    /\ configs = 2
    /\ \A h \in handlers : h.id > Cardinality(handlers)
    /\ Len(emitted) = 1
    /\ written["stdout"] = emitted

\* The destinations of the sinks in the registry.
RegisteredDests == {h.dest : h \in handlers}

\* C21: a sink is in the registry only if the settings enable it, and with
\* log_console false, log_file empty and log_exception false the registry is
\* empty.
C21_SinksOnlyIfEnabled ==
    /\ "stdout" \in RegisteredDests => logSettings.log_console
    /\ "logs/app.log" \in RegisteredDests => logSettings.log_file # ""
    /\ "logs/exception.log" \in RegisteredDests => logSettings.log_exception
    /\ (~logSettings.log_console /\ logSettings.log_file = "" /\ ~logSettings.log_exception)
         => handlers = {}

\* ------------------------------------------------------ settings (C22)
\* C22: constructing Settings succeeds in every environment, and an option
\* whose variable is not set, or is set to a text that is not valid for the
\* option's type, has its default value.
C22_SettingsAlwaysLoad ==
    settings.status # "unloaded" =>
        /\ settings.status = "loaded"
        /\ (~environ["port"].set \/ ~ValidFor("port", environ["port"].text))
             => settings.port = Default("port")
        /\ (~environ["debug"].set \/ ~ValidFor("debug", environ["debug"].text))
             => settings.debug = Default("debug")
        /\ ~environ["environment"].set => settings.environment = Default("environment")
        /\ ~environ["secret_key"].set => settings.secret_key = Default("secret_key")

\* C30: when no jwt_secret_key is supplied, settings.jwt_secret_key and
\* get_jwt_config()["secret_key"] both equal settings.secret_key; when a
\* non-empty jwt_secret_key is supplied, both equal the supplied value.
C30_JwtKeyFallsBack ==
    settings.status = "loaded" =>
        /\ ~environ["jwt_secret_key"].set =>
             /\ settings.jwt_secret_key = settings.secret_key
             /\ get_jwt_config_secret_key(settings) = settings.secret_key
        /\ (environ["jwt_secret_key"].set /\ environ["jwt_secret_key"].text # "") =>
             /\ settings.jwt_secret_key = environ["jwt_secret_key"].text
             /\ get_jwt_config_secret_key(settings) = environ["jwt_secret_key"].text

\* ------------------------------------------- startup, shutdown (C23, C24)
\* C23: when shutdown_event() has run, the manager is closed, and
\* cleanup_pycache has not been called if the environment is 'production',
\* whatever debug is.
C23_NoCleanupInProduction ==
    \A t \in Threads :
        Done(t, {"shutdown_event"}) =>
            /\ ManagerUninitialized
            /\ \A e \in 1..created : disposals[e] = 1
            /\ Lower(settings.environment) = "production" => cleaned # "called"

\* C24: a startup_event() that ran while the database had always been
\* reachable has completed without an exception and left the manager ready;
\* a startup_event() that left the manager uninitialized has raised.
C24_StartupMakesManagerReady ==
    \A t \in Threads :
        Done(t, {"startup_event"}) =>
            /\ ~everDown => (raised[t] = NoExc /\ _is_initialized /\ _engine # 0)
            /\ ~_is_initialized => raised[t] # NoExc

\* ------------------------------------------------ units of work (C25)
\* C25: the session a caller holds was created by its own call; two callers
\* never hold the same session; while the body of a scope runs its session is
\* open, and when the scope has been left the session is closed, close being
\* the last call on it (so no later scope, which holds an open session, can
\* be using it).
C25_OneSessionPerUnitOfWork ==
    /\ \A t \in Threads : sess[t] # 0 => sessOwner[sess[t]] = t
    /\ \A t1, t2 \in Threads : (t1 # t2 /\ sess[t1] # 0) => sess[t1] # sess[t2]
    /\ \A t \in Threads : pc[t] \in {"body", "exit"} => sess[t] \in openSessions
    /\ \A t \in Threads :
         ScopeDone(t, ScopeOps) =>
             /\ sess[t] \notin openSessions
             /\ calls[t] # <<>>
             /\ calls[t][Len(calls[t])] = "close"

\* C25 witness: two callers are inside the bodies of their scopes at the same
\* time, each with a session of its own.
C25_Witness ==
    /\ \A t \in Threads : pc[t] = "body" /\ op[t] \in ScopeOps
    /\ Cardinality({sess[t] : t \in Threads}) = 2
    /\ Cardinality(openSessions) = 2

\* ------------------------------------------------ logged headers (C26)
\* The header names a request carries.
SentNames == {reqHeaders[i].name : i \in DOMAIN reqHeaders}

\* C26, as stated: in the 'Request received' record every header line of the
\* request whose name is, case-insensitively, authorization, cookie or
\* x-api-key has the value '[REDACTED]', every other header line keeps its
\* value, and the set of header names is the request's.
C26_EveryHeaderKeptOrRedacted ==
    recHeaders.logged =>
        /\ DOMAIN recHeaders.headers = SentNames
        /\ \A i \in DOMAIN reqHeaders :
             recHeaders.headers[reqHeaders[i].name] =
                 IF LowerName(reqHeaders[i].name) \in sensitive_headers
                 THEN "[REDACTED]" ELSE reqHeaders[i].value

\* C26, amended: the record has exactly the request's header names; a name
\* that is, case-insensitively, authorization, cookie or x-api-key has the
\* value '[REDACTED]'; every other name has the value of the first header
\* line sent under it; logging leaves the request's headers as they were.
C26_NamesKeptSensitiveRedacted ==
    /\ [](recHeaders.logged =>
            /\ DOMAIN recHeaders.headers = SentNames
            /\ \A k \in SentNames :
                 IF LowerName(k) \in sensitive_headers
                 THEN recHeaders.headers[k] = "[REDACTED]"
                 ELSE \E i \in DOMAIN reqHeaders :
                          /\ reqHeaders[i] = Header(k, recHeaders.headers[k])
                          /\ \A j \in 1..(i - 1) : reqHeaders[j].name # k)
    /\ [][reqHeaders' = reqHeaders]_vars

\* C26 witness: a logged request that carried a sensitive header under a
\* capitalised name and another header.
C26_Witness ==
    /\ recHeaders.logged
    /\ "Authorization" \in SentNames
    /\ "accept" \in SentNames

\* --------------------------------------------- context isolation (C27)
\* The positions of dispatch between binding the request id and the finally
\* block that clears it.
Handling == {"log_received", "call_next", "log_completed", "set_headers",
             "slow_check", "except", "finally"}

\* C27: the ambient request id of a request's task is its own id or None;
\* every record a request logs with its id was emitted under that id or None;
\* while a request is being handled its ambient id is its own, whatever
\* other requests have bound or cleared in the meantime.
C27_ContextIsolatedBetweenRequests ==
    /\ \A r \in Requests : ambient[r].request_id \in {0, request_id[r]}
    /\ \A i \in DOMAIN emitted :
         emitted[i].request_id # 0 =>
             emitted[i].ctx_request_id \in {0, emitted[i].request_id}
    /\ \A r \in Requests :
         rpc[r] \in Handling => ambient[r].request_id = request_id[r]

\* C27 witness: request A is still being handled with its id bound, and a
\* request B that bound its id after A has finished and cleared its context.
C27_Witness ==
    \E a, b \in Requests :
        /\ rpc[a] = "call_next" /\ ambient[a].request_id = request_id[a]
        /\ request_id[a] # 0
        /\ request_id[b] > request_id[a]
        /\ rpc[b] = "done" /\ ambient[b] = NoContext

\* ------------------------------------------- health check frame (C28)
\* C28: a step in which a caller runs health_check() leaves _engine,
\* _session_factory, _base and _is_initialized as they were, creates no
\* engine and disposes none.
C28_HealthCheckLeavesManagerAlone ==
    [][\A t \in Threads :
          (pc[t] = "idle" /\ pc'[t] = "done" /\ op'[t] = "health_check") =>
              UNCHANGED <<_engine, _session_factory, _base, _is_initialized,
                          created, disposals>>]_vars

\* C28 witness: health_check() has reported unhealthy because its probe
\* failed, and the manager still holds the engine it probed.
C28_Witness ==
    /\ Done(MainCaller, {"health_check"})
    /\ result[MainCaller].status = "unhealthy"
    /\ probed[MainCaller].eng # 0
    /\ _engine = probed[MainCaller].eng
    /\ _is_initialized

\* health_check() has reported healthy on an initialized manager.
C28_HealthyOutcome ==
    /\ Done(MainCaller, {"health_check"})
    /\ result[MainCaller].status = "healthy"
    /\ _is_initialized

\* health_check() has reported unhealthy on a manager that was never
\* initialized, and the manager is still uninitialized.
C28_UninitializedOutcome ==
    /\ Done(MainCaller, {"health_check"})
    /\ result[MainCaller].status = "unhealthy"
    /\ probed[MainCaller].eng = 0
    /\ _engine = 0
    /\ ~_is_initialized

\* ------------------------------------------------ creating users (C29)
\* C29: a call of create_user whose e-mail is already stored when it does its
\* insert raises ValueError and stores no row; ValueError is reported as HTTP
\* 400; no two stored users share an e-mail.
C29_DuplicateEmailIsValueError ==
    /\ [](\A a, b \in users : a.email = b.email => a = b)
    /\ [](\A t \in Threads :
            upc[t] = "done" /\ response[t].error = "ValueError" =>
                response[t].status = 400)
    /\ [][\A t \in Threads :
             (/\ upc[t] = "create"
              /\ upc'[t] = "controller"
              /\ get_by_field(users, "email", user_data[t].email)) =>
                 /\ response'[t].error = "ValueError"
                 /\ users' = users]_vars

\* The parts of C29 that hold: a call whose e-mail is already stored when it
\* does its insert stores no row, and no two stored users share an e-mail.
C29_NoDuplicateRow ==
    /\ [](\A a, b \in users : a.email = b.email => a = b)
    /\ [][\A t \in Threads :
             (/\ upc[t] = "create"
              /\ upc'[t] = "controller"
              /\ get_by_field(users, "email", user_data[t].email)) =>
                 users' = users]_vars

\* A call found no user with its e-mail, another call stored one meanwhile,
\* and the first call ended with HTTP 500.
C29_LostRace ==
    \E t \in Threads :
        /\ upc[t] = "done"
        /\ ~existing[t]
        /\ response[t].error = "IntegrityError"
        /\ response[t].status = 500
        /\ get_by_field(users, "email", user_data[t].email)

====
